---------------------------- MODULE Spec2Model ----------------------------
(***************************************************************************)
(* A model of laid-by-lines: the LAID greedy set cover over the implicit   *)
(* disjoint matrix of a bit-packed dataset, distributed over MPI ranks.    *)
(*                                                                         *)
(* A dataset line is modelled as the set of the bit positions that are     *)
(* set in it.  Position q is bit WORD_BITS-1-(q % WORD_BITS) of            *)
(* word q \div WORD_BITS, so position 0 is the most significant bit of     *)
(* word 0: attribute i is position i.  A 64-bit word is never turned into  *)
(* a number; words are compared by their most significant differing bit.   *)
(***************************************************************************)
EXTENDS Integers, Sequences, FiniteSets, TLC

(***************************************************************************)
(* Bounds of the model.                                                    *)
(***************************************************************************)
\* Largest number of lines in the dataset file.
MaxObs == 3
\* Largest number of MPI processes.
MaxN == 3
\* Largest number of observations of one class in the specification of the
\* disjoint matrix.
MaxCount == 3

\* The attribute counts and class counts of the datasets that are explored.
AttributeCounts == {1, 2}
ClassCounts == {2, 3}

(***************************************************************************)
(* Program constants.                                                      *)
(***************************************************************************)
WORD_BITS == 64
N_WORDS_PER_CYCLE == 8
ROOT_RANK == 0
\* The multiple the line length is rounded up to (one cache line of bits).
CACHE_LINE_BITS == 512

VARIABLES
    dataset,                    \* dataset_t: the counters and the line buffer
    classes,                    \* dataset.classes: line_class_t per class
    n_observations_per_class,   \* dataset.n_observations_per_class
    observations_per_class,     \* dataset.observations_per_class
    phase,                      \* position of the node root in the setup
    duplicates,                 \* value returned by remove_duplicates
    max_inconsistency,          \* value returned by add_jnsqs
    file_lines,                 \* the lines as they were in the file
    hdf5_attributes,            \* the attributes of the dataset in the file
    attributes_result           \* value returned by hdf5_read_dataset_attributes

prevars == <<dataset, classes, n_observations_per_class,
             observations_per_class, phase, duplicates, max_inconsistency,
             file_lines, hdf5_attributes, attributes_result>>

(***************************************************************************)
(* utils/math.c and arithmetic helpers                                     *)
(***************************************************************************)
roundUp(numToRound, multiple) ==
    IF multiple = 0 THEN numToRound
    ELSE LET remainder == numToRound % multiple
         IN  IF remainder = 0 THEN numToRound
             ELSE numToRound + multiple - remainder

RECURSIVE Pow2(_)
Pow2(n) == IF n = 0 THEN 1 ELSE 2 * Pow2(n - 1)

\* ceil(log2(x)) for x >= 1, as the double computation gives on small x.
RECURSIVE CeilLog2From(_, _)
CeilLog2From(x, k) == IF Pow2(k) >= x THEN k ELSE CeilLog2From(x, k + 1)
CeilLog2(x) == CeilLog2From(x, 0)

SetMin(S) == CHOOSE x \in S : \A y \in S : x <= y

(***************************************************************************)
(* utils/bit.h: bit fields of a word.  `at' is the index, counted from the *)
(* least significant bit, of the lowest bit of the field.                  *)
(***************************************************************************)
\* Position in the line of bit `bit' (0 = least significant) of word w.
PosOf(w, bit) == w * WORD_BITS + (WORD_BITS - 1 - bit)

BIT_CHECK(line, w, bit) == PosOf(w, bit) \in line

\* The bits of word w of the line.
WordOf(line, w) == {q \in line : q \div WORD_BITS = w}

RECURSIVE FieldValue(_, _, _, _)
FieldValue(line, w, at, n) ==
    IF n = 0 THEN 0
    ELSE (IF BIT_CHECK(line, w, at + n - 1) THEN Pow2(n - 1) ELSE 0)
         + FieldValue(line, w, at, n - 1)

get_bits(line, w, at, n) == FieldValue(line, w, at, n)

\* Bit i (0 = least significant) of the number v.
NumBit(v, i) == (v \div Pow2(i)) % 2

set_bits(line, w, value, at, n) ==
    LET field == {PosOf(w, at + i) : i \in 0..(n - 1)}
    IN  (line \ field) \cup {PosOf(w, at + i) : i \in {j \in 0..(n - 1) : NumBit(value, j) = 1}}

\* Reverses the order of the n low bits of the word; the higher bits are lost.
RECURSIVE invert_n_bits(_, _)
invert_n_bits(word, n_bits) ==
    IF n_bits = 0 THEN 0
    ELSE (word % 2) * Pow2(n_bits - 1) + invert_n_bits(word \div 2, n_bits - 1)

(***************************************************************************)
(* dataset_hdf5.c: the attributes of the dataset and its lines in memory   *)
(***************************************************************************)
NBitsForClass(n_classes) == CeilLog2(n_classes)

\* hdf5_read_dataset_attributes: the number of words of a line in memory.
LineWords(n_attributes, n_classes) ==
    LET total_bits == roundUp(n_attributes + NBitsForClass(n_classes), CACHE_LINE_BITS)
        n_words == total_bits \div WORD_BITS + (IF total_bits % WORD_BITS # 0 THEN 1 ELSE 0)
    IN  n_words + 1

\* get_class: the class bits packed after the attributes of a file line.
get_class(line, n_attributes, n_words, n_bits_for_class) ==
    LET remaining == n_attributes % WORD_BITS
    IN  IF n_bits_for_class = 1 \/ remaining + n_bits_for_class <= WORD_BITS
        THEN get_bits(line, n_words - 1, WORD_BITS - remaining - n_bits_for_class,
                      n_bits_for_class)
        ELSE LET n_bits_p == WORD_BITS - remaining
                 n_bits_l == n_bits_for_class - n_bits_p
                 high_b == get_bits(line, n_words - 2, 0, n_bits_p)
                 low_b == get_bits(line, n_words - 1, WORD_BITS - n_bits_l, n_bits_l)
             IN  high_b * Pow2(n_bits_l) + low_b

\* A line of the file: the attributes, then the class bits packed after them.
FileLine(attrs, class, n_attributes, n_bits_for_class) ==
    attrs \cup {n_attributes + j : j \in {k \in 0..(n_bits_for_class - 1) :
                                          NumBit(class, n_bits_for_class - 1 - k) = 1}}

\* hdf5_read_dataset_data_by_line: the file line copied to memory and its
\* class stored in the last word of the line.
MemoryLine(fline, n_attributes, n_bits_for_class, n_words) ==
    LET file_n_words == (n_attributes + n_bits_for_class) \div WORD_BITS
                        + (IF (n_attributes + n_bits_for_class) % WORD_BITS # 0 THEN 1 ELSE 0)
        line_class == get_class(fline, n_attributes, file_n_words, n_bits_for_class)
    IN  (fline \ WordOf(fline, n_words - 1))
           \cup {PosOf(n_words - 1, i) : i \in {j \in 0..(n_bits_for_class - 1) :
                                                NumBit(line_class, j) = 1}}

\* The value of the last word of a line, the class of the line.
LastWord(line, n_words) == get_bits(line, n_words - 1, 0, 8)

(***************************************************************************)
(* dataset.c                                                               *)
(***************************************************************************)
\* The loop of compare_lines_extra from word i on.
RECURSIVE CompareFrom(_, _, _, _)
\* The comparison with the results for greater and smaller exchanged.
CompareFrom_swap(ula, ulb, i, n_l) ==
    IF i >= n_l THEN 0
    ELSE LET va == WordOf(ula, i)
             vb == WordOf(ulb, i)
             diff == (va \ vb) \cup (vb \ va)
         IN  IF diff = {} THEN CompareFrom(ula, ulb, i + 1, n_l)
             ELSE IF SetMin(diff) \in va THEN -1 ELSE 1

CompareFrom(ula, ulb, i, n_l) ==
    IF i >= n_l THEN 0
    ELSE LET va == WordOf(ula, i)
             vb == WordOf(ulb, i)
             diff == (va \ vb) \cup (vb \ va)
         IN  IF diff = {} THEN CompareFrom(ula, ulb, i + 1, n_l)
             ELSE IF SetMin(diff) \in va THEN 1 ELSE -1

compare_lines_extra(a, b, n_words) == CompareFrom(a, b, 0, n_words)

has_same_attributes(line_a, line_b, n_attributes) ==
    LET n_words == n_attributes \div WORD_BITS
        remaining == n_attributes % WORD_BITS
    IN  /\ \A c_word \in 0..(n_words - 1) : WordOf(line_a, c_word) = WordOf(line_b, c_word)
        /\ \/ remaining = 0
           \/ \A bit \in (WORD_BITS - remaining)..(WORD_BITS - 1) :
                 BIT_CHECK(line_a, n_words, bit) = BIT_CHECK(line_b, n_words, bit)

\* sort_r with compare_lines_extra: insertion of one line into a sorted run.
RECURSIVE InsertLine(_, _, _)
InsertLine(sorted, line, n_words) ==
    IF sorted = <<>> THEN <<line>>
    ELSE IF compare_lines_extra(line, Head(sorted), n_words) < 0
         THEN <<line>> \o sorted
         ELSE <<Head(sorted)>> \o InsertLine(Tail(sorted), line, n_words)

RECURSIVE sort_r(_, _)
sort_r(data, n_words) ==
    IF data = <<>> THEN <<>>
    ELSE InsertLine(sort_r(Tail(data), n_words), Head(data), n_words)

\* The loop of remove_duplicates: `line' and `last' are 1-based indexes into
\* data, i counts the iterations.
RECURSIVE RemoveLoop(_, _, _, _, _, _, _)
\* The loop that keeps every line, equal to the last kept line or not.
RemoveLoop_keep(data, line, last, n_uniques, i, n_obs, n_words) ==
    IF i >= n_obs - 1 THEN [data |-> data, n_uniques |-> n_uniques]
    ELSE RemoveLoop([data EXCEPT ![last + 1] = data[line + 1]], line + 1, last + 1,
                    n_uniques + 1, i + 1, n_obs, n_words)

RemoveLoop(data, line, last, n_uniques, i, n_obs, n_words) ==
    IF i >= n_obs - 1 THEN [data |-> data, n_uniques |-> n_uniques]
    ELSE LET nline == line + 1
         IN  IF compare_lines_extra(data[nline], data[last], n_words) # 0
             THEN RemoveLoop([data EXCEPT ![last + 1] = data[nline]], nline, last + 1,
                             n_uniques + 1, i + 1, n_obs, n_words)
             ELSE RemoveLoop(data, nline, last, n_uniques, i + 1, n_obs, n_words)

remove_duplicates(ds) ==
    LET r == RemoveLoop(ds.data, 1, 1, 1, 0, ds.n_observations, ds.n_words)
    IN  [dataset |-> [ds EXCEPT !.data = r.data, !.n_observations = r.n_uniques],
         removed |-> ds.n_observations - r.n_uniques]

\* The loop of fill_class_arrays over the lines i..n_obs of the dataset.
RECURSIVE FillLoop(_, _, _, _)
\* The loop that records every line of a class as its first observation.
FillLoop_last(ds, cls, i, n_obs) ==
    IF i > n_obs THEN cls
    ELSE LET lc == LastWord(ds.data[i], ds.n_words)
         IN  FillLoop(ds, [cls EXCEPT ![lc] = [n_observations |-> cls[lc].n_observations + 1,
                                                first_observation_address |-> i]],
                      i + 1, n_obs)

FillLoop(ds, cls, i, n_obs) ==
    IF i > n_obs THEN cls
    ELSE LET lc == LastWord(ds.data[i], ds.n_words)
             first == IF cls[lc].n_observations = 0 THEN i
                      ELSE cls[lc].first_observation_address
         IN  FillLoop(ds, [cls EXCEPT ![lc] = [n_observations |-> cls[lc].n_observations + 1,
                                                first_observation_address |-> first]],
                      i + 1, n_obs)

\* The values the n_observations field of what lies after the array of the
\* classes may hold when fill_class_arrays reads it.
MemoryAfterClasses == {0, 1}

\* The memory fill_class_arrays indexes with the class word of a line: the
\* zeroed entries of the n_classes classes, followed by what lies after the
\* array, up to the largest value the class bits of a line can hold.
ClassMemory(ds, beyond) ==
    [c \in 0..(Pow2(ds.n_bits_for_class) - 1) |->
        [n_observations |-> IF c < ds.n_classes THEN 0 ELSE beyond,
         first_observation_address |-> 0]]

\* The class words of the lines that are no class of the dataset.
LabelsOutOfRange(ds) ==
    {LastWord(ds.data[i], ds.n_words) : i \in 1..ds.n_observations}
        \ (0..(ds.n_classes - 1))

\* fill_class_arrays: the value it returns and the memory it leaves.
fill_class_arrays(ds, beyond) ==
    [result |-> "OK",
     classes |-> FillLoop(ds, ClassMemory(ds, beyond), 1, ds.n_observations)]

\* The list of the observations of each class, in the order of the dataset.
ObservationsOfClass(ds, c) ==
    SelectSeq([i \in 1..ds.n_observations |-> i],
              LAMBDA i : LastWord(ds.data[i], ds.n_words) = c)

(***************************************************************************)
(* jnsq.c                                                                  *)
(***************************************************************************)
\* No write at all: the line keeps the class bits of the file.
set_jnsq_bits_none(line, inconsistency, n_attributes, n_words, n_bits_for_class) == line

set_jnsq_bits(line, inconsistency, n_attributes, n_words, n_bits_for_class) ==
    LET true_n_words == n_attributes \div WORD_BITS
                        + (IF n_attributes % WORD_BITS # 0 THEN 1 ELSE 0)
        attributes_last_word == n_attributes % WORD_BITS
        word_with_jnsq == IF attributes_last_word = 0 THEN true_n_words
                          ELSE true_n_words - 1
        free_bits_last_word == IF attributes_last_word = 0 THEN WORD_BITS
                               ELSE WORD_BITS - attributes_last_word
    IN  IF n_bits_for_class > free_bits_last_word
        THEN \* the jnsq bits are split between two words
             LET n_bits == free_bits_last_word
                 inc1 == IF n_bits > 1 THEN invert_n_bits(inconsistency, n_bits)
                         ELSE inconsistency
                 line1 == set_bits(line, word_with_jnsq, inc1, 0, n_bits)
                 inc2 == inc1 \div Pow2(n_bits)
                 n_bits_needed == n_bits_for_class - n_bits
                 jnsq_start == WORD_BITS - n_bits_needed
                 inc3 == IF n_bits_needed > 1 THEN invert_n_bits(inc2, n_bits_needed)
                         ELSE inc2
             IN  set_bits(line1, word_with_jnsq + 1, inc3, jnsq_start, n_bits_needed)
        ELSE LET jnsq_start == free_bits_last_word - n_bits_for_class
                 inc == IF n_bits_for_class > 1
                        THEN invert_n_bits(inconsistency, n_bits_for_class)
                        ELSE inconsistency
             IN  set_bits(line, word_with_jnsq, inc, jnsq_start, n_bits_for_class)

\* The loop of add_jnsqs: prev is the 1-based index of the previous line.
RECURSIVE JnsqLoop(_, _, _, _, _)
JnsqLoop(ds, data, prev, inconsistency, max_inc) ==
    IF prev >= ds.n_observations THEN [data |-> data, max |-> max_inc]
    ELSE LET current == prev + 1
             same == has_same_attributes(data[current], data[prev], ds.n_attributes)
             inc == IF same THEN inconsistency + 1 ELSE 0
             nmax == IF same /\ inc > max_inc THEN inc ELSE max_inc
         IN  JnsqLoop(ds,
                      [data EXCEPT ![current] =
                          set_jnsq_bits(data[current], inc, ds.n_attributes, ds.n_words,
                                        ds.n_bits_for_class)],
                      current, inc, nmax)

add_jnsqs(ds) ==
    JnsqLoop(ds,
             [ds.data EXCEPT ![1] = set_jnsq_bits(ds.data[1], 0, ds.n_attributes,
                                                  ds.n_words, ds.n_bits_for_class)],
             1, 0, 0)

(***************************************************************************)
(* The datasets of the model                                               *)
(***************************************************************************)
\* hdf5_read_dataset_attributes: the value it returns and the dataset it
\* leaves.  On NOK it returns before it stores anything.
hdf5_read_dataset_attributes(ds, attrs) ==
    IF attrs.n_classes < 2 \/ attrs.n_observations < 2 \/ attrs.n_attributes < 1
    THEN [result |-> "NOK", dataset |-> ds]
    ELSE [result |-> "OK",
          dataset |-> [ds EXCEPT !.n_attributes = attrs.n_attributes,
                                 !.n_bits_for_class = NBitsForClass(attrs.n_classes),
                                 !.n_bits_for_jnsqs = 0,
                                 !.n_classes = attrs.n_classes,
                                 !.n_observations = attrs.n_observations,
                                 !.n_words = LineWords(attrs.n_attributes,
                                                       attrs.n_classes)]]

\* init_dataset and the dimensions of the file that main stores after
\* hdf5_open_dataset.
OpenedDataset(n_lines, file_n_words) ==
    [n_attributes     |-> 0,
     n_words          |-> file_n_words,
     n_bits_for_jnsqs |-> 0,
     n_observations   |-> n_lines,
     n_classes        |-> 0,
     n_bits_for_class |-> 0,
     data             |-> <<>>]

\* hdf5_read_dataset_attributes followed by the read of the lines.
ReadDataset(A, C, flines) ==
    [n_attributes     |-> A,
     n_words          |-> LineWords(A, C),
     n_bits_for_jnsqs |-> 0,
     n_observations   |-> Len(flines),
     n_classes        |-> C,
     n_bits_for_class |-> NBitsForClass(C),
     data             |-> [i \in 1..Len(flines) |->
                             MemoryLine(flines[i], A, NBitsForClass(C), LineWords(A, C))]]

\* The lines a file of A attributes and C classes can hold.
FileLines(A, C) ==
    {FileLine(attrs, c, A, NBitsForClass(C)) : attrs \in SUBSET (0..(A - 1)), c \in 0..(C - 1)}

\* Every file of 2..MaxObs lines.
Files(A, C) ==
    UNION {[1..R -> FileLines(A, C)] : R \in 2..MaxObs}

NoClasses == <<>>

InitFrom(A, C, flines) ==
    /\ dataset = ReadDataset(A, C, flines)
    /\ file_lines = dataset.data
    /\ hdf5_attributes = [n_classes |-> C, n_observations |-> Len(flines),
                          n_attributes |-> A]
    /\ attributes_result = "OK"
    /\ classes = NoClasses
    /\ n_observations_per_class = NoClasses
    /\ observations_per_class = NoClasses
    /\ phase = "read"
    /\ duplicates = 0
    /\ max_inconsistency = 0

(***************************************************************************)
(* laid_by_lines.c, main: the setup of the dataset by the node root        *)
(***************************************************************************)
\* hdf5_read_dataset_attributes(hdf5_dset.dataset_id, &dataset), whose result
\* main does not look at, and the read of the lines.
ReadAttributes ==
    /\ phase = "open"
    /\ \E r \in {hdf5_read_dataset_attributes(dataset, hdf5_attributes)} :
          /\ attributes_result' = r.result
          /\ dataset' = [r.dataset EXCEPT !.data =
                            [i \in 1..Len(file_lines) |->
                                MemoryLine(file_lines[i], r.dataset.n_attributes,
                                           r.dataset.n_bits_for_class, r.dataset.n_words)]]
    /\ file_lines' = dataset'.data
    /\ phase' = "read"
    /\ UNCHANGED <<classes, n_observations_per_class, observations_per_class,
                   duplicates, max_inconsistency, hdf5_attributes>>

\* sort_r(dataset.data, n_observations, ..., compare_lines_extra, &n_words)
Sort ==
    /\ phase = "read"
    /\ dataset' = [dataset EXCEPT !.data = sort_r(dataset.data, dataset.n_words)]
    /\ phase' = "sorted"
    /\ UNCHANGED <<classes, n_observations_per_class, observations_per_class,
                   duplicates, max_inconsistency, file_lines,
                   hdf5_attributes, attributes_result>>

\* The bound n_obs - 1 of the loop of remove_duplicates is a uint64_t: with
\* no observations it is 2^64 - 1, and the loop goes on over the memory
\* after the buffer of the dataset.
LeavesBuffer(ds) == ds.n_observations = 0

\* What the loop does outside the buffer: the process is killed when it
\* reads memory that is not mapped, before or after a memcpy has written
\* outside the buffer.
RemoveFaults == {"fault", "fault after memcpy"}

\* duplicates = remove_duplicates(&dataset)
RemoveDuplicates ==
    /\ phase = "sorted"
    /\ IF LeavesBuffer(dataset)
       THEN /\ phase' \in RemoveFaults
            /\ UNCHANGED <<dataset, duplicates>>
       ELSE /\ LET r == remove_duplicates(dataset)
               IN  /\ dataset' = r.dataset
                   /\ duplicates' = r.removed
            /\ phase' = "deduped"
    /\ UNCHANGED <<classes, n_observations_per_class, observations_per_class,
                   max_inconsistency, file_lines,
                   hdf5_attributes, attributes_result>>

\* fill_class_arrays(&dataset), with the per class lists main allocates.
FillClassArrays ==
    /\ phase = "deduped"
    /\ \E beyond \in (IF LabelsOutOfRange(dataset) = {} THEN {0} ELSE MemoryAfterClasses) :
          \E r \in {fill_class_arrays(dataset, beyond)} :
             \* classes holds the entries of the classes and the memory after
             \* them that was written
             /\ classes' = [c \in (0..(dataset.n_classes - 1)) \cup LabelsOutOfRange(dataset)
                               |-> r.classes[c]]
             \* if (fill_class_arrays(&dataset) != OK) return EXIT_FAILURE;
             /\ phase' = IF r.result # "OK" THEN "exit_failure" ELSE "indexed"
    /\ observations_per_class' =
          [c \in 0..(dataset.n_classes - 1) |-> ObservationsOfClass(dataset, c)]
    /\ n_observations_per_class' =
          [c \in 0..(dataset.n_classes - 1) |-> Len(ObservationsOfClass(dataset, c))]
    /\ UNCHANGED <<dataset, duplicates, max_inconsistency, file_lines,
                   hdf5_attributes, attributes_result>>

\* n_bits_for_jnsqs that main leaves as it was.
JnsqBits_old(max_inc, old) == old

\* n_bits_for_jnsqs as main derives it from the value add_jnsqs returns.
JnsqBits(max_inc, old) == IF max_inc > 0 THEN CeilLog2(max_inc + 1) ELSE old

\* n_words as main derives it again from the attributes and the jnsq bits.
WordsFor(n_attributes) ==
    n_attributes \div WORD_BITS + (IF n_attributes % WORD_BITS # 0 THEN 1 ELSE 0)

\* add_jnsqs(&dataset) and the update of n_bits_for_jnsqs, n_attributes and
\* n_words that follows it.
AddJnsqs ==
    /\ phase = "indexed"
    /\ LET r == add_jnsqs(dataset)
           j == JnsqBits(r.max, dataset.n_bits_for_jnsqs)
       IN  /\ dataset' = [dataset EXCEPT !.data = r.data,
                                         !.n_bits_for_jnsqs = j,
                                         !.n_attributes = dataset.n_attributes + j,
                                         !.n_words = WordsFor(dataset.n_attributes + j)]
           /\ max_inconsistency' = r.max
    /\ phase' = "jnsq"
    /\ UNCHANGED <<classes, n_observations_per_class, observations_per_class,
                   duplicates, file_lines,
                   hdf5_attributes, attributes_result>>

(***************************************************************************)
(* disjoint_matrix.c                                                       *)
(***************************************************************************)
\* The inner loop of get_dm_n_lines over class_b.
RECURSIVE DmLinesB(_, _, _, _, _)
RECURSIVE DmLinesA(_, _, _, _)

\* The outer loop with class_b from class_a on: a class paired with itself.
DmLinesA_self(cls, n_classes, class_a, n) ==
    IF class_a >= n_classes - 1 THEN n
    ELSE DmLinesA(cls, n_classes, class_a + 1,
                  DmLinesB(cls, n_classes, class_a, class_a, n))

DmLinesB(cls, n_classes, class_a, class_b, n) ==
    IF class_b >= n_classes THEN n
    ELSE DmLinesB(cls, n_classes, class_a, class_b + 1,
                  n + cls[class_a].n_observations * cls[class_b].n_observations)

\* The outer loop of get_dm_n_lines over class_a.
DmLinesA(cls, n_classes, class_a, n) ==
    IF class_a >= n_classes - 1 THEN n
    ELSE DmLinesA(cls, n_classes, class_a + 1,
                  DmLinesB(cls, n_classes, class_a, class_a + 1, n))

get_dm_n_lines(cls, n_classes) == DmLinesA(cls, n_classes, 0, 0)

(***************************************************************************)
(* utils/block.h: the block partition of n lines over p processes          *)
(***************************************************************************)
BLOCK_LOW(id, p, n) == (id * n) \div p
BLOCK_HIGH(id, p, n) == BLOCK_LOW(id + 1, p, n) - 1
BLOCK_SIZE(id, p, n) == BLOCK_HIGH(id, p, n) - BLOCK_LOW(id, p, n) + 1

\* dm.s_offset and dm.s_size as main sets them.
WindowOffset(rank, size, n_matrix_lines) == BLOCK_LOW(rank, size, n_matrix_lines)
\* A window of n / p lines for every rank.
WindowSize_even(rank, size, n_matrix_lines) == n_matrix_lines \div size

WindowSize(rank, size, n_matrix_lines) == BLOCK_SIZE(rank, size, n_matrix_lines)

(***************************************************************************)
(* set_cover.c: the walk of the window in the order of the disjoint matrix *)
(***************************************************************************)
Offsets(ca, ia, cb, ib) == [classA |-> ca, indexA |-> ia, classB |-> cb, indexB |-> ib]

\* The four nested while loops of the totals functions.  Each operator is
\* the test of one loop; acc is the list of the lines visited so far, so
\* cl = Len(acc).
RECURSIVE WalkCA(_, _, _, _, _, _, _, _)
RECURSIVE WalkIA(_, _, _, _, _, _, _, _)
RECURSIVE WalkCB(_, _, _, _, _, _, _, _)
RECURSIVE WalkIB(_, _, _, _, _, _, _, _)
WalkIB(nopc, nc, s_size, ca, ia, cb, ib, acc) ==
    IF ib < nopc[cb] /\ Len(acc) < s_size
    THEN WalkIB(nopc, nc, s_size, ca, ia, cb, ib + 1, Append(acc, Offsets(ca, ia, cb, ib)))
    ELSE WalkCB(nopc, nc, s_size, ca, ia, cb + 1, 0, acc)
\* The loop over classB without cb = ca + 1 after it.
WalkCB_keep(nopc, nc, s_size, ca, ia, cb, ib, acc) ==
    IF cb < nc /\ Len(acc) < s_size
    THEN WalkIB(nopc, nc, s_size, ca, ia, cb, ib, acc)
    ELSE WalkIA(nopc, nc, s_size, ca, ia + 1, cb, 0, acc)

WalkCB(nopc, nc, s_size, ca, ia, cb, ib, acc) ==
    IF cb < nc /\ Len(acc) < s_size
    THEN WalkIB(nopc, nc, s_size, ca, ia, cb, ib, acc)
    ELSE WalkIA(nopc, nc, s_size, ca, ia + 1, ca + 1, 0, acc)
WalkIA(nopc, nc, s_size, ca, ia, cb, ib, acc) ==
    IF ia < nopc[ca] /\ Len(acc) < s_size
    THEN WalkCB(nopc, nc, s_size, ca, ia, cb, ib, acc)
    ELSE WalkCA(nopc, nc, s_size, ca + 1, 0, ca + 2, 0, acc)
WalkCA(nopc, nc, s_size, ca, ia, cb, ib, acc) ==
    IF ca < nc - 1 /\ Len(acc) < s_size
    THEN WalkIA(nopc, nc, s_size, ca, ia, cb, ib, acc)
    ELSE acc

\* The lines the totals functions visit from the offsets `from'.
WalkWindow(nopc, nc, from, s_size) ==
    WalkCA(nopc, nc, s_size, from.classA, from.indexA, from.classB, from.indexB, <<>>)

(***************************************************************************)
(* disjoint_matrix_mpi.h: calculate_class_offsets and get_column           *)
(***************************************************************************)
\* The offsets the scan of the lines ends with when the line does not exist.
EndOffsets(nc) == Offsets(nc - 1, 0, nc, 0)

\* The nested scan in the order of the matrix up to the requested line:
\* cl counts the lines passed.
RECURSIVE Scan(_, _, _, _, _, _, _, _)
Scan(nopc, nc, line, ca, ia, cb, ib, cl) ==
    IF ca >= nc - 1 THEN EndOffsets(nc)
    ELSE IF ia >= nopc[ca] THEN Scan(nopc, nc, line, ca + 1, 0, ca + 2, 0, cl)
    ELSE IF cb >= nc THEN Scan(nopc, nc, line, ca, ia + 1, ca + 1, 0, cl)
    ELSE IF ib >= nopc[cb] THEN Scan(nopc, nc, line, ca, ia, cb + 1, 0, cl)
    ELSE IF cl = line THEN Offsets(ca, ia, cb, ib)
    ELSE Scan(nopc, nc, line, ca, ia, cb, ib + 1, cl + 1)

ScanOffsets(nopc, nc, line) == Scan(nopc, nc, line, 0, 0, 1, 0, 0)

calculate_class_offsets(nopc, nc, line) ==
    IF nc = 2 /\ nopc[1] > 0
    THEN Offsets(0, line \div nopc[1], 1, line % nopc[1])
    ELSE ScanOffsets(nopc, nc, line)

(***************************************************************************)
(* The state of the cover loop of laid_by_lines.c                          *)
(***************************************************************************)
VARIABLES
    size,                       \* number of processes of the run
    pc,                         \* where each process is
    dm,                         \* dm_t of each process
    covered_lines,              \* covered lines bit array of each process
    best_column,                \* best attribute bit array of each process
    attribute_totals,           \* local totals of each process
    n_uncovered_lines,          \* uncovered lines of each process
    global_attribute_totals,    \* root: the reduced totals
    selected_attributes,        \* root: the solution bit array
    global_n_uncovered_lines,   \* root: uncovered lines of the full matrix
    contrib,                    \* MPI_Reduce: send buffers not yet reduced
    bcasts,                     \* MPI_Bcast: the values root has broadcast
    calls,                      \* the collective calls each process has made
    picks,                      \* values get_best_attribute_index returned
    undefined,                  \* undefined operations executed so far
    shift_build,                \* what a shift by WORD_BITS does in this build
    next_size,                  \* process count of a following run, or 0
    ref                         \* outcome of the preceding run, if any

loopvars == <<size, pc, dm, covered_lines, best_column, attribute_totals,
              n_uncovered_lines, global_attribute_totals, selected_attributes,
              global_n_uncovered_lines, contrib, bcasts, calls, picks,
              undefined, shift_build, next_size, ref>>

vars == <<prevars, loopvars>>

Procs == 0..(size - 1)

\* The line of the dataset that observations_per_class holds for (class, index).
LineOf(c, i) == dataset.data[observations_per_class[c][i + 1]]

\* la ^ lb over the whole line of the pair.
LineXor(t) ==
    LET la == LineOf(t.classA, t.indexA)
        lb == LineOf(t.classB, t.indexB)
    IN  (la \ lb) \cup (lb \ la)

\* The lines of the window of a process, in the order the loops visit them.
WindowLines(d) ==
    WalkWindow(n_observations_per_class, dataset.n_classes,
               d.initial_class_offsets, d.s_size)

\* calloc(dataset.n_words * WORD_BITS, sizeof(uint64_t))
ZeroTotals == [a \in 0..(dataset.n_words * WORD_BITS - 1) |-> 0]

\* No reset: the totals keep the values of the previous iteration.
memset_none(totals, n) == totals

\* memset(totals, 0, n * sizeof(uint64_t))
memset(totals, n) == [a \in DOMAIN totals |-> IF a < n THEN 0 ELSE totals[a]]

\* totals[catt] += sign * BIT_CHECK(lxor, bit) over the words cw..ew-1.
\* The set construction binds the totals and the xor to their values once.
AddWords(totals, lxor, cw, ew, sign) ==
    CHOOSE r \in {[a \in DOMAIN t |->
                     t[a] + (IF a \in x /\ a \div WORD_BITS >= cw /\ a \div WORD_BITS < ew
                             THEN sign ELSE 0)] : <<t, x>> \in {<<totals, lxor>>}} : TRUE

\* One pass over the window for the words cw..ew-1.  mode "all" counts every
\* line, "add" the lines not in `lines', "sub" subtracts the lines in `lines'.
RECURSIVE PassWindow(_, _, _, _, _, _, _)
PassWindow(totals, walk, cl, cw, ew, lines, mode) ==
    IF cl >= Len(walk) THEN totals
    ELSE LET hit == CASE mode = "all" -> TRUE
                      [] mode = "add" -> cl \notin lines
                      [] mode = "sub" -> cl \in lines
             t == IF hit
                  THEN AddWords(totals, LineXor(walk[cl + 1]), cw, ew,
                                IF mode = "sub" THEN -1 ELSE 1)
                  ELSE totals
         IN  PassWindow(t, walk, cl + 1, cw, ew, lines, mode)

\* The loop over the blocks of N_WORDS_PER_CYCLE words.
RECURSIVE PassBlocks(_, _, _, _, _)
PassBlocks(totals, walk, cw, lines, mode) ==
    IF cw >= dataset.n_words THEN totals
    ELSE LET ew == IF cw + N_WORDS_PER_CYCLE > dataset.n_words THEN dataset.n_words
                   ELSE cw + N_WORDS_PER_CYCLE
         IN  PassBlocks(PassWindow(totals, walk, 0, cw, ew, lines, mode), walk,
                        cw + N_WORDS_PER_CYCLE, lines, mode)

\* No count at all: the totals stay as calloc left them.
calculate_initial_attribute_totals_none(d, totals) == totals

calculate_initial_attribute_totals(d, totals) ==
    PassBlocks(memset(totals, dataset.n_attributes), WindowLines(d), 0, {}, "all")

\* The count of the uncovered lines on top of the totals of the iteration
\* before, without the memset.
calculate_attribute_totals_add_keep(d, covered, totals) ==
    PassBlocks(totals, WindowLines(d), 0, covered, "add")

calculate_attribute_totals_add(d, covered, totals) ==
    PassBlocks(memset(totals, dataset.n_attributes), WindowLines(d), 0, covered, "add")

\* calculate_attribute_totals_sub that skips every line: the totals keep the
\* lines the selected attribute covers.
calculate_attribute_totals_sub_skip(d, covered, totals) ==
    PassBlocks(totals, WindowLines(d), 0, {}, "sub")

calculate_attribute_totals_sub(d, covered, totals) ==
    PassBlocks(totals, WindowLines(d), 0, covered, "sub")

\* The loop of get_best_attribute_index from attribute i on.
RECURSIVE BestFrom(_, _, _, _, _)

\* The loop with >= for >: the last of the greatest totals wins.
BestFrom_last(totals, n_attributes, i, max_total, max_attribute) ==
    IF i >= n_attributes THEN max_attribute
    ELSE IF totals[i] >= max_total
         THEN BestFrom(totals, n_attributes, i + 1, totals[i], i)
         ELSE BestFrom(totals, n_attributes, i + 1, max_total, max_attribute)

BestFrom(totals, n_attributes, i, max_total, max_attribute) ==
    IF i >= n_attributes THEN max_attribute
    ELSE IF totals[i] > max_total
         THEN BestFrom(totals, n_attributes, i + 1, totals[i], i)
         ELSE BestFrom(totals, n_attributes, i + 1, max_total, max_attribute)

get_best_attribute_index(totals, n_attributes) ==
    BestFrom(totals, n_attributes, 0, 0, -1)

\* The column of the attribute over the window: bit k is set when the xor of
\* the k-th line of the window has the attribute set.
get_column(d, attribute) ==
    LET walk == WindowLines(d)
    IN  {k \in 0..(Len(walk) - 1) : attribute \in LineXor(walk[k + 1])}

\* No update: covered_lines stays as it was.
update_covered_lines_none(column, covered) == covered

update_covered_lines(column, covered) == covered \cup column

\* Division and remainder of C, which truncate towards zero.
CDiv(a, b) == IF a >= 0 THEN a \div b ELSE -((-a) \div b)
CMod(a, b) == a - b * CDiv(a, b)

\* mark_attribute_as_selected.  A shift by WORD_BITS or more is undefined:
\* `shifted' is the bit position the build sets then, or -1 for none.
mark_attribute_as_selected(attributes, attribute, shifted) ==
    LET attribute_word == CDiv(attribute, WORD_BITS)
        attribute_bit == WORD_BITS - CMod(attribute, WORD_BITS) - 1
    IN  IF attribute_bit < WORD_BITS
        THEN attributes \cup {PosOf(attribute_word, attribute_bit)}
        ELSE IF shifted < 0 THEN attributes
             ELSE attributes \cup {PosOf(attribute_word, shifted)}

(***************************************************************************)
(* laid_by_lines.c, main: the cover loop                                   *)
(***************************************************************************)
\* What is left of a uint64_t after an underflow: some value that is not 0.
WrappedAround == -1
Sub64(a, b) == IF a = WrappedAround THEN WrappedAround
               ELSE IF a >= b THEN a - b ELSE WrappedAround

\* The values a read of global_attribute_totals[-1] may give.
OutOfBoundsReads == {0, 1}

\* The bit a shift by WORD_BITS sets in each build, -1 for none.
ShiftedBit(b) == IF b = "masked" THEN 0 ELSE -1

NoDm == [n_matrix_lines |-> 0, n_words_in_a_column |-> 0, s_offset |-> 0,
         s_size |-> 0, initial_class_offsets |-> Offsets(0, 0, 0, 0)]

\* The setup of the disjoint matrix of a process: lines 361 to 369 and 435.
SetupDm(rank) ==
    LET n_matrix_lines == get_dm_n_lines(classes, dataset.n_classes)
        s_offset == WindowOffset(rank, size, n_matrix_lines)
        s_size == WindowSize(rank, size, n_matrix_lines)
    IN  [n_matrix_lines |-> n_matrix_lines,
         n_words_in_a_column |-> s_size \div WORD_BITS
                                 + (IF s_size % WORD_BITS # 0 THEN 1 ELSE 0),
         s_offset |-> s_offset,
         s_size |-> s_size,
         initial_class_offsets |->
             calculate_class_offsets(n_observations_per_class, dataset.n_classes, s_offset)]

\* The send buffer of MPI_Reduce: dataset.n_attributes counters.
SendBuffer(totals) == [a \in 0..(dataset.n_attributes - 1) |-> totals[a]]

\* A process that leaves the loop when all its lines are covered.
NextCall_leave(n_uncovered) == IF n_uncovered = 0 THEN "MPI_Barrier" ELSE "MPI_Reduce"

\* What a process does after the update of n_uncovered_lines: it stays in
\* the loop, also when all its lines are covered.
NextCall(n_uncovered) == "MPI_Reduce"

\* The "Add" branch of the loop on the column of the selected attribute:
\* update_covered_lines, then calculate_attribute_totals_add.
AddUpdate(p, column) ==
    LET covered == update_covered_lines(column, covered_lines[p])
    IN  [attribute_totals |->
             calculate_attribute_totals_add(dm[p], covered, attribute_totals[p]),
         covered_lines |-> covered,
         best_column |-> column]

\* The "Sub" branch without update_covered_lines: the covered lines stay as
\* they were.
SubUpdate_stale(p, column) ==
    LET newly == column \ covered_lines[p]
    IN  [attribute_totals |->
             calculate_attribute_totals_sub(dm[p], newly, attribute_totals[p]),
         covered_lines |-> covered_lines[p],
         best_column |-> newly]

\* The "Sub" branch: best_column &= ~covered_lines, then
\* calculate_attribute_totals_sub, then update_covered_lines.
SubUpdate(p, column) ==
    LET newly == column \ covered_lines[p]
    IN  [attribute_totals |->
             calculate_attribute_totals_sub(dm[p], newly, attribute_totals[p]),
         covered_lines |-> update_covered_lines(newly, covered_lines[p]),
         best_column |-> newly]

\* The body of the loop after MPI_Bcast delivered best_attribute >= 0.
LoopBody(p, best_attribute) ==
    LET t == attribute_totals[p][best_attribute]
        n_unc == Sub64(n_uncovered_lines[p], t)
    IN  IF n_unc = 0
        THEN [n_uncovered_lines |-> n_unc,
              attribute_totals |-> memset(attribute_totals[p], dataset.n_attributes),
              covered_lines |-> covered_lines[p],
              best_column |-> best_column[p]]
        ELSE LET column == get_column(dm[p], best_attribute)
             IN  [n_uncovered_lines |-> n_unc]
                 @@ (IF n_unc # WrappedAround /\ n_unc < t
                     THEN AddUpdate(p, column)
                     ELSE SubUpdate(p, column))

\* A process leaves MPI_Bcast with best_attribute and runs to its next
\* blocking call.  queues holds the send buffers that are not yet reduced.
Continue(p, best_attribute, bcast_call, queues) ==
    IF best_attribute < 0
    THEN /\ pc' = [pc EXCEPT ![p] = "barrier"]
         /\ calls' = [calls EXCEPT ![p] = @ \o bcast_call \o <<"MPI_Barrier">>]
         /\ contrib' = queues
         /\ UNCHANGED <<n_uncovered_lines, attribute_totals, covered_lines,
                        best_column>>
    ELSE \E body \in {LoopBody(p, best_attribute)} :
             /\ n_uncovered_lines' = [n_uncovered_lines EXCEPT ![p] = body.n_uncovered_lines]
             /\ attribute_totals' = [attribute_totals EXCEPT ![p] = body.attribute_totals]
             /\ covered_lines' = [covered_lines EXCEPT ![p] = body.covered_lines]
             /\ best_column' = [best_column EXCEPT ![p] = body.best_column]
             /\ IF NextCall(body.n_uncovered_lines) = "MPI_Reduce"
                THEN /\ contrib' = [queues EXCEPT
                                      ![p] = Append(@, SendBuffer(body.attribute_totals))]
                     /\ pc' = [pc EXCEPT ![p] = IF p = ROOT_RANK THEN "reduce" ELSE "bcast"]
                     /\ calls' = [calls EXCEPT ![p] =
                                     @ \o bcast_call \o <<"MPI_Reduce">>
                                       \o (IF p = ROOT_RANK THEN <<>> ELSE <<"MPI_Bcast">>)]
                ELSE /\ contrib' = queues
                     /\ pc' = [pc EXCEPT ![p] = "barrier"]
                     /\ calls' = [calls EXCEPT ![p] = @ \o bcast_call \o <<"MPI_Barrier">>]

\* Lines 361 to 498 of a process: the disjoint matrix, the arrays of the
\* loop, the initial totals and the first call of MPI_Reduce.
Setup(p) ==
    /\ phase = "jnsq"
    /\ pc[p] = "setup"
    /\ \E d \in {SetupDm(p)} :
       \E totals \in {calculate_initial_attribute_totals(d, ZeroTotals)} :
           /\ dm' = [dm EXCEPT ![p] = d]
           /\ covered_lines' = [covered_lines EXCEPT ![p] = {}]
           /\ best_column' = [best_column EXCEPT ![p] = {}]
           /\ n_uncovered_lines' = [n_uncovered_lines EXCEPT ![p] = d.s_size]
           /\ attribute_totals' = [attribute_totals EXCEPT ![p] = totals]
           /\ contrib' = [contrib EXCEPT ![p] = Append(@, SendBuffer(totals))]
           /\ IF p = ROOT_RANK
              THEN /\ global_attribute_totals' = ZeroTotals
                   /\ selected_attributes' = {}
                   /\ global_n_uncovered_lines' = d.n_matrix_lines
              ELSE UNCHANGED <<global_attribute_totals, selected_attributes,
                               global_n_uncovered_lines>>
    /\ pc' = [pc EXCEPT ![p] = IF p = ROOT_RANK THEN "reduce" ELSE "bcast"]
    /\ calls' = [calls EXCEPT ![p] = IF p = ROOT_RANK THEN <<"MPI_Reduce">>
                                     ELSE <<"MPI_Reduce", "MPI_Bcast">>]
    /\ UNCHANGED <<prevars, size, bcasts, picks, undefined, shift_build, next_size, ref>>

\* MPI_SUM of the send buffers at the head of every queue.
RECURSIVE SumFrom(_, _)

\* The totals of the root alone, for the sum over the processes.
SumFrom_root(p, a) == Head(contrib[ROOT_RANK])[a]

SumFrom(p, a) == IF p >= size THEN 0 ELSE Head(contrib[p])[a] + SumFrom(p + 1, a)

Reduced(recvbuf) ==
    [a \in DOMAIN recvbuf |-> IF a < dataset.n_attributes THEN SumFrom(0, a) ELSE recvbuf[a]]

\* The root leaves MPI_Reduce, selects the best attribute, broadcasts it and
\* runs to its next blocking call: lines 498 to 579.
RootStep ==
    /\ pc[ROOT_RANK] = "reduce"
    /\ \A p \in Procs : contrib[p] # <<>>
    /\ \E totals \in {Reduced(global_attribute_totals)} :
       \E best \in {get_best_attribute_index(totals, dataset.n_attributes)} :
           /\ global_attribute_totals' = totals
           /\ picks' = Append(picks, best)
           /\ IF best >= 0
              THEN /\ UNCHANGED <<undefined, shift_build>>
                   /\ global_n_uncovered_lines' =
                         Sub64(global_n_uncovered_lines, totals[best])
              ELSE /\ undefined' = undefined \cup {"global_attribute_totals[-1]",
                                                  "shift by WORD_BITS"}
                   /\ shift_build' \in (IF shift_build = "unknown"
                                        THEN {"masked", "none"} ELSE {shift_build})
                   /\ \E v \in OutOfBoundsReads :
                         global_n_uncovered_lines' = Sub64(global_n_uncovered_lines, v)
           /\ selected_attributes' =
                 mark_attribute_as_selected(selected_attributes, best,
                                            ShiftedBit(shift_build'))
           /\ \E best_attribute \in {IF global_n_uncovered_lines' = 0 THEN -1 ELSE best} :
                  /\ bcasts' = Append(bcasts, best_attribute)
                  /\ Continue(ROOT_RANK, best_attribute, <<"MPI_Bcast">>,
                              [p \in Procs |-> Tail(contrib[p])])
    /\ UNCHANGED <<prevars, size, dm, next_size, ref>>

\* A process other than the root leaves MPI_Bcast and runs to its next
\* blocking call: lines 530 to 579 and 498.
Recv(p) ==
    /\ p # ROOT_RANK
    /\ pc[p] = "bcast"
    /\ \E round \in {Cardinality({i \in 1..Len(calls[p]) : calls[p][i] = "MPI_Bcast"})} :
           /\ Len(bcasts) >= round
           /\ Continue(p, bcasts[round], <<>>, contrib)
    /\ UNCHANGED <<prevars, size, dm, global_attribute_totals, selected_attributes,
                   global_n_uncovered_lines, bcasts, picks, undefined, shift_build,
                   next_size, ref>>

\* MPI_Barrier(comm) before show_solution: every process has to be in it.
Barrier ==
    /\ \A p \in Procs : pc[p] = "barrier"
    /\ pc' = [p \in Procs |-> "done"]
    /\ UNCHANGED <<prevars, size, dm, covered_lines, best_column, attribute_totals,
                   n_uncovered_lines, global_attribute_totals, selected_attributes,
                   global_n_uncovered_lines, contrib, bcasts, calls, picks, undefined,
                   shift_build, next_size, ref>>

(***************************************************************************)
(* The specifications                                                      *)
(***************************************************************************)
NoRun == [picks |-> <<>>, selected |-> {}, bcasts |-> <<>>, size |-> 0]

\* The variables of the cover loop but pc before the loop.
LoopVarsInit(n, following) ==
    /\ size = n
    /\ dm = [p \in 0..(n - 1) |-> NoDm]
    /\ covered_lines = [p \in 0..(n - 1) |-> {}]
    /\ best_column = [p \in 0..(n - 1) |-> {}]
    /\ attribute_totals = [p \in 0..(n - 1) |-> <<>>]
    /\ n_uncovered_lines = [p \in 0..(n - 1) |-> 0]
    /\ global_attribute_totals = <<>>
    /\ selected_attributes = {}
    /\ global_n_uncovered_lines = 0
    /\ contrib = [p \in 0..(n - 1) |-> <<>>]
    /\ bcasts = <<>>
    /\ calls = [p \in 0..(n - 1) |-> <<>>]
    /\ picks = <<>>
    /\ undefined = {}
    /\ shift_build = "unknown"
    /\ next_size = following
    /\ ref = NoRun

LoopInit(n, following) ==
    /\ pc = [p \in 0..(n - 1) |-> "setup"]
    /\ LoopVarsInit(n, following)

\* A file holds its lines in any order; the sort makes the order of the file
\* irrelevant, so the runs of the cover loop start from one order of each
\* multiset of lines, the descending one.
Descending(flines, A, C) ==
    \A i \in 1..(Len(flines) - 1) :
        compare_lines_extra(flines[i], flines[i + 1], LineWords(A, C)) >= 0

\* The program on a dataset file, with 1..MaxN processes.
Init ==
    /\ \E A \in AttributeCounts, C \in ClassCounts :
          \E flines \in {f \in Files(A, C) : Descending(f, A, C)} : InitFrom(A, C, flines)
    /\ \E n \in 1..MaxN : LoopInit(n, 0)

Next ==
    \/ Sort
       /\ UNCHANGED loopvars
    \/ RemoveDuplicates
       /\ UNCHANGED loopvars
    \/ FillClassArrays
       /\ UNCHANGED loopvars
    \/ AddJnsqs
       /\ UNCHANGED loopvars
    \/ \E p \in Procs : Setup(p)
    \/ RootStep
    \/ \E p \in Procs : Recv(p)
    \/ Barrier

Spec == Init /\ [][Next]_vars

AllDone == \A p \in Procs : pc[p] = "done"

\* The steps of the processes from the setup of the disjoint matrix on.
CoverLoop ==
    \/ \E p \in Procs : Setup(p)
    \/ RootStep
    \/ \E p \in Procs : Recv(p)
    \/ Barrier

\* The program with the scheduling of MPI: while a process can leave the
\* call it is in, some process does.
FairSpec == Spec /\ WF_vars(CoverLoop)

(***************************************************************************)
(* Two runs on the same dataset file: one process, then next_size          *)
(* processes.  The setup of the dataset does not depend on the number of   *)
(* processes, so the second run starts from the dataset of the first.      *)
(***************************************************************************)
Restart ==
    /\ AllDone
    /\ next_size > 0
    /\ ref' = [picks |-> picks, selected |-> selected_attributes,
               bcasts |-> bcasts, size |-> size]
    /\ size' = next_size
    /\ next_size' = 0
    /\ pc' = [p \in 0..(next_size - 1) |-> "setup"]
    /\ dm' = [p \in 0..(next_size - 1) |-> NoDm]
    /\ covered_lines' = [p \in 0..(next_size - 1) |-> {}]
    /\ best_column' = [p \in 0..(next_size - 1) |-> {}]
    /\ attribute_totals' = [p \in 0..(next_size - 1) |-> <<>>]
    /\ n_uncovered_lines' = [p \in 0..(next_size - 1) |-> 0]
    /\ global_attribute_totals' = <<>>
    /\ selected_attributes' = {}
    /\ global_n_uncovered_lines' = 0
    /\ contrib' = [p \in 0..(next_size - 1) |-> <<>>]
    /\ bcasts' = <<>>
    /\ calls' = [p \in 0..(next_size - 1) |-> <<>>]
    /\ picks' = <<>>
    /\ undefined' = {}
    /\ UNCHANGED <<prevars, shift_build>>

InitDet ==
    /\ \E A \in AttributeCounts, C \in ClassCounts :
          \E flines \in {f \in Files(A, C) : Descending(f, A, C)} : InitFrom(A, C, flines)
    /\ \E n \in 1..MaxN : LoopInit(1, n)

NextDet == Next \/ Restart

SpecDet == InitDet /\ [][NextDet]_vars

(***************************************************************************)
(* The setup of the dataset alone, on the files in every order of lines.   *)
(***************************************************************************)
InitPre ==
    /\ \E A \in AttributeCounts, C \in ClassCounts :
          \E flines \in Files(A, C) : InitFrom(A, C, flines)
    /\ LoopInit(1, 0)

NextPre ==
    \/ Sort
       /\ UNCHANGED loopvars
    \/ RemoveDuplicates
       /\ UNCHANGED loopvars
    \/ FillClassArrays
       /\ UNCHANGED loopvars
    \/ AddJnsqs
       /\ UNCHANGED loopvars

SpecPre == InitPre /\ [][NextPre]_vars

(***************************************************************************)
(* The setup of the disjoint matrix alone, on every vector of class counts *)
(* up to MaxCount: get_dm_n_lines, the windows and the class offsets.      *)
(***************************************************************************)
ClassIndexOf(counts) ==
    [c \in DOMAIN counts |-> [n_observations |-> counts[c], first_observation_address |-> 0]]

InitDm ==
    /\ \E C \in ClassCounts : \E counts \in [0..(C - 1) -> 0..MaxCount] :
          /\ dataset = [n_attributes |-> 1, n_words |-> 1, n_bits_for_jnsqs |-> 0,
                        n_observations |-> 0, n_classes |-> C,
                        n_bits_for_class |-> NBitsForClass(C), data |-> <<>>]
          /\ classes = ClassIndexOf(counts)
          /\ n_observations_per_class = counts
          /\ observations_per_class = [c \in 0..(C - 1) |-> <<>>]
    /\ file_lines = <<>>
    /\ hdf5_attributes = [n_classes |-> dataset.n_classes, n_observations |-> 0,
                          n_attributes |-> 1]
    /\ attributes_result = "OK"
    /\ phase = "dm"
    /\ duplicates = 0
    /\ max_inconsistency = 0
    /\ \E n \in 1..MaxN : LoopInit(n, 0)

\* Lines 361 to 369 of a process.
SetupWindow(p) ==
    /\ phase = "dm"
    /\ pc[p] = "setup"
    /\ dm' = [dm EXCEPT ![p] = SetupDm(p)]
    /\ pc' = [pc EXCEPT ![p] = "window"]
    /\ UNCHANGED <<prevars, size, covered_lines, best_column, attribute_totals,
                   n_uncovered_lines, global_attribute_totals, selected_attributes,
                   global_n_uncovered_lines, contrib, bcasts, calls, picks, undefined,
                   shift_build, next_size, ref>>

NextDm == \E p \in Procs : SetupWindow(p)

SpecDm == InitDm /\ [][NextDm]_vars

(***************************************************************************)
(* The program on lines whose attributes end at or next to the end of a    *)
(* word, so that the class bits of the file and the jnsq bits are split    *)
(* between two words.  Of the attributes only the last one differs between *)
(* lines; a file holds up to MaxRows different lines; one or two processes.*)
(***************************************************************************)
\* Largest number of lines of a file whose attributes end near a word end.
MaxRows == 5

WideAttributeCounts == {62, 63, 64}
WideClassCounts == {3, 5}

WideLines(A, C) ==
    {FileLine(attrs, c, A, NBitsForClass(C)) : attrs \in SUBSET {A - 1}, c \in 0..(C - 1)}

\* The lines of a set as a file, in descending order.
RECURSIVE DescendingFile(_, _)
DescendingFile(S, n_words) ==
    IF S = {} THEN <<>>
    ELSE LET m == CHOOSE x \in S : \A y \in S : compare_lines_extra(x, y, n_words) >= 0
         IN  <<m>> \o DescendingFile(S \ {m}, n_words)

InitWide ==
    /\ \E A \in WideAttributeCounts, C \in WideClassCounts :
          \E S \in {T \in SUBSET WideLines(A, C) : Cardinality(T) \in 2..MaxRows} :
             InitFrom(A, C, DescendingFile(S, LineWords(A, C)))
    /\ \E n \in 1..2 : LoopInit(n, 0)

SpecWide == InitWide /\ [][Next]_vars

(***************************************************************************)
(* The setup of the dataset on files whose lines carry any value the class *)
(* bits can hold, the values that are no class of the dataset included.    *)
(***************************************************************************)
LabelledLines(A, C) ==
    {FileLine(attrs, c, A, NBitsForClass(C)) :
        attrs \in SUBSET (0..(A - 1)), c \in 0..(Pow2(NBitsForClass(C)) - 1)}

InitLabels ==
    /\ \E C \in ClassCounts :
          \E flines \in UNION {[1..R -> LabelledLines(1, C)] : R \in 2..MaxObs} :
             InitFrom(1, C, flines)
    /\ LoopInit(1, 0)

SpecLabels == InitLabels /\ [][NextPre]_vars

(***************************************************************************)
(* The setup of the dataset from the opened file on, on files whose        *)
(* attributes n_classes, n_observations and n_attributes may be too small. *)
(* The lines of the file are lines of one attribute and two classes.       *)
(***************************************************************************)
InitAttributes ==
    /\ \E flines \in Files(1, 2) :
          /\ file_lines = flines
          /\ dataset = OpenedDataset(Len(flines), WordsFor(1 + NBitsForClass(2)))
          /\ \E C \in {1, 2}, R \in {1, Len(flines)}, A \in {0, 1} :
                hdf5_attributes = [n_classes |-> C, n_observations |-> R,
                                   n_attributes |-> A]
    /\ attributes_result = "none"
    /\ classes = NoClasses
    /\ n_observations_per_class = NoClasses
    /\ observations_per_class = NoClasses
    /\ phase = "open"
    /\ duplicates = 0
    /\ max_inconsistency = 0
    /\ LoopInit(1, 0)

NextAttributes ==
    \/ ReadAttributes
       /\ UNCHANGED loopvars
    \/ NextPre

SpecAttributes == InitAttributes /\ [][NextAttributes]_vars

(***************************************************************************)
(* The setup of the dataset from the opened file on, on files of 0 to      *)
(* MaxObs lines of one attribute and two classes whose attributes tell     *)
(* the number of lines they hold.                                          *)
(***************************************************************************)
InitRows ==
    /\ \E flines \in UNION {[1..R -> FileLines(1, 2)] : R \in 0..MaxObs} :
          /\ file_lines = flines
          /\ dataset = OpenedDataset(Len(flines), WordsFor(1 + NBitsForClass(2)))
          /\ hdf5_attributes = [n_classes |-> 2, n_observations |-> Len(flines),
                                n_attributes |-> 1]
    /\ attributes_result = "none"
    /\ classes = NoClasses
    /\ n_observations_per_class = NoClasses
    /\ observations_per_class = NoClasses
    /\ phase = "open"
    /\ duplicates = 0
    /\ max_inconsistency = 0
    /\ LoopInit(1, 0)

SpecRows == InitRows /\ [][NextAttributes]_vars

(***************************************************************************)
(* The processes of one node from the opened file to the cover loop.  The  *)
(* lines are in the shared window of the node (MPI_Win_allocate_shared):   *)
(* dataset.data is the one buffer all the processes of the node point to.  *)
(* pc is the call a process is at or about to make:                        *)
(*   "preprocess"       the root only: lines 215 to 256                    *)
(*   "bcast_attributes" MPI_Bcast of the dataset fields, lines 259 to 267  *)
(*   "barrier_288"      MPI_Barrier(node_comm), line 288                   *)
(*   "fill"             fill_class_arrays, line 290                        *)
(*   "barrier_307"      MPI_Barrier(node_comm), line 307                   *)
(*   "add_jnsqs"        the root only: lines 310 to 329                    *)
(*   "bcast_jnsqs"      MPI_Bcast of n_bits_for_jnsqs, line 332            *)
(*   "barrier_349"      MPI_Barrier(node_comm), line 349                   *)
(* and then the positions of the cover loop from "setup" on.               *)
(***************************************************************************)
\* The variables of the cover loop but pc.
restvars == <<size, dm, covered_lines, best_column, attribute_totals, n_uncovered_lines,
              global_attribute_totals, selected_attributes, global_n_uncovered_lines,
              contrib, bcasts, calls, picks, undefined, shift_build, next_size, ref>>

\* The steps of the node root in lines 215 to 256.
NodePreprocess ==
    /\ pc[ROOT_RANK] = "preprocess"
    /\ ReadAttributes \/ Sort \/ RemoveDuplicates
    /\ UNCHANGED loopvars

\* MPI_Bcast of the dataset fields: the root sends after remove_duplicates,
\* another process leaves the call once the root has sent.
BcastAttributes(p) ==
    /\ IF p = ROOT_RANK
       THEN pc[p] = "preprocess" /\ phase = "deduped"
       ELSE pc[p] = "bcast_attributes" /\ pc[ROOT_RANK] # "preprocess"
    /\ pc' = [pc EXCEPT ![p] = "barrier_288"]
    /\ UNCHANGED <<prevars, restvars>>

NodeBarriers == {"barrier_288", "barrier_307", "barrier_349"}

\* The call of a process after a barrier of the node.
AfterBarrier(b, p) ==
    CASE b = "barrier_288" -> "fill"
      [] b = "barrier_307" -> IF p = ROOT_RANK THEN "add_jnsqs" ELSE "bcast_jnsqs"
      [] b = "barrier_349" -> "setup"

\* A barrier that lets the root through without the other processes.
BarrierComplete_root(b) == pc[ROOT_RANK] = b

\* MPI_Barrier(node_comm) completes when every process of the node is in it.
BarrierComplete(b) == \A p \in Procs : pc[p] = b

NodeBarrier ==
    /\ \E b \in NodeBarriers :
          /\ BarrierComplete(b)
          /\ pc' = [p \in Procs |-> IF pc[p] = b THEN AfterBarrier(b, p) ELSE pc[p]]
    /\ UNCHANGED <<prevars, restvars>>

\* fill_class_arrays of a process that does not wait for the root's
\* MPI_Bcast of the dataset fields and for the barrier after it.
NodeFill_early(p) ==
    /\ pc[p] \in {"fill", "bcast_attributes"}
    /\ IF p = ROOT_RANK THEN FillClassArrays ELSE UNCHANGED prevars
    /\ pc' = [pc EXCEPT ![p] = "barrier_307"]
    /\ UNCHANGED restvars

\* fill_class_arrays(&dataset) of a process: every process walks the lines
\* of the shared buffer and fills its own arrays, which are equal on all the
\* processes; the model keeps those of the root.
NodeFill(p) ==
    /\ pc[p] = "fill"
    /\ IF p = ROOT_RANK THEN FillClassArrays ELSE UNCHANGED prevars
    /\ pc' = [pc EXCEPT ![p] = "barrier_307"]
    /\ UNCHANGED restvars

\* add_jnsqs by the node root, then the root's MPI_Bcast of n_bits_for_jnsqs.
NodeAddJnsqs ==
    /\ pc[ROOT_RANK] = "add_jnsqs"
    /\ AddJnsqs
    /\ pc' = [pc EXCEPT ![ROOT_RANK] = "barrier_349"]
    /\ UNCHANGED restvars

\* Another process leaves MPI_Bcast of n_bits_for_jnsqs once the root sent.
BcastJnsqs(p) ==
    /\ p # ROOT_RANK
    /\ pc[p] = "bcast_jnsqs"
    /\ pc[ROOT_RANK] # "add_jnsqs"
    /\ pc' = [pc EXCEPT ![p] = "barrier_349"]
    /\ UNCHANGED <<prevars, restvars>>

InitNode ==
    /\ \E A \in AttributeCounts, C \in ClassCounts :
          \E flines \in {f \in Files(A, C) : Descending(f, A, C)} :
             /\ file_lines = flines
             /\ dataset = OpenedDataset(Len(flines), WordsFor(A + NBitsForClass(C)))
             /\ hdf5_attributes = [n_classes |-> C, n_observations |-> Len(flines),
                                   n_attributes |-> A]
    /\ attributes_result = "none"
    /\ classes = NoClasses
    /\ n_observations_per_class = NoClasses
    /\ observations_per_class = NoClasses
    /\ phase = "open"
    /\ duplicates = 0
    /\ max_inconsistency = 0
    /\ \E n \in 1..MaxN :
          /\ pc = [p \in 0..(n - 1) |-> IF p = ROOT_RANK THEN "preprocess"
                                         ELSE "bcast_attributes"]
          /\ LoopVarsInit(n, 0)

NextNode ==
    \/ NodePreprocess
    \/ \E p \in Procs : BcastAttributes(p)
    \/ NodeBarrier
    \/ \E p \in Procs : NodeFill(p)
    \/ NodeAddJnsqs
    \/ \E p \in Procs : BcastJnsqs(p)
    \/ CoverLoop

SpecNode == InitNode /\ [][NextNode]_vars

(***************************************************************************)
(* The program on the dataset of one attribute and two classes that holds  *)
(* each of the four possible lines once, the lines of the file in any      *)
(* order.                                                                  *)
(***************************************************************************)
InitFour ==
    /\ \E flines \in {f \in [1..4 -> FileLines(1, 2)] :
                          \A i, j \in 1..4 : f[i] = f[j] => i = j} :
          InitFrom(1, 2, flines)
    /\ \E n \in 1..MaxN : LoopInit(n, 0)

SpecFour == InitFour /\ [][Next]_vars

(***************************************************************************)
(* Properties of the cover loop                                            *)
(***************************************************************************)
Last(s) == s[Len(s)]

\* Every pair of observations of two different classes.
AllPairs ==
    UNION {{Offsets(ca, ia, cb, ib) :
               ia \in 0..(n_observations_per_class[ca] - 1),
               ib \in 0..(n_observations_per_class[cb] - 1)} :
           <<ca, cb>> \in {c \in (0..(dataset.n_classes - 1)) \X (0..(dataset.n_classes - 1)) :
                              c[1] < c[2]}}

Attributes == 0..(dataset.n_attributes - 1)

LoopTerminated == phase = "jnsq" /\ pc[ROOT_RANK] \in {"barrier", "done"}

C2_BestIsFirstMaximum ==
    (picks # <<>> /\ Last(picks) >= 0) =>
        \A a \in Attributes :
            /\ global_attribute_totals[a] <= global_attribute_totals[Last(picks)]
            /\ global_attribute_totals[a] = global_attribute_totals[Last(picks)]
                  => Last(picks) <= a

\* A selection among attributes that tie for the greatest total.
C2_Witness ==
    /\ picks # <<>>
    /\ Last(picks) >= 0
    /\ \E a \in Attributes :
          /\ a > Last(picks)
          /\ global_attribute_totals[a] = global_attribute_totals[Last(picks)]
    /\ \A a \in Attributes :
          global_attribute_totals[a] <= global_attribute_totals[Last(picks)]

\* C3: a run on any number of processes selects, iteration by iteration, the
\* attributes the run on one process selected on the same dataset, and ends
\* after as many iterations with the same selected set.  ref is the outcome
\* of the run on one process.
C3_SameAsOneProcess ==
    ref.size = 1 =>
        /\ Len(picks) <= Len(ref.picks)
        /\ \A i \in 1..Len(picks) : picks[i] = ref.picks[i]
        /\ Len(bcasts) <= Len(ref.bcasts)
        /\ \A i \in 1..Len(bcasts) : bcasts[i] = ref.bcasts[i]
        /\ AllDone => /\ picks = ref.picks
                      /\ bcasts = ref.bcasts
                      /\ selected_attributes = ref.selected

\* A second run that ended, on more processes than the disjoint matrix has
\* lines, after the two selections of the first run.
C3_Witness ==
    /\ ref.size = 1
    /\ AllDone
    /\ size > dm[ROOT_RANK].n_matrix_lines
    /\ Cardinality(ref.selected \cap Attributes) = 2
    /\ selected_attributes = ref.selected

CallPattern(s) ==
    \A i \in 1..Len(s) :
        IF i % 2 = 0 THEN s[i] = "MPI_Bcast"
        ELSE \/ s[i] = "MPI_Reduce"
             \/ s[i] = "MPI_Barrier" /\ i = Len(s) /\ i > 1

\* The window of the process is empty or all its lines are covered.
NothingLeft(p) == dm[p].s_size = 0 \/ n_uncovered_lines[p] = 0

InLoop(p) == pc[p] \in {"reduce", "bcast"}

\* C5: every process makes the collective calls the root makes, in its
\* order, one MPI_Reduce and one MPI_Bcast in each iteration; a process with
\* an empty or a fully covered window stays in the loop and sends totals
\* that are all zero; a process leaves the loop only on the broadcast of -1,
\* and while a process has not finished some process can take a step.
C5_SameCollectives ==
    /\ \A p \in Procs :
          /\ CallPattern(calls[p])
          /\ \A i \in 1..Len(calls[p]) :
                i <= Len(calls[ROOT_RANK]) => calls[p][i] = calls[ROOT_RANK][i]
          /\ (InLoop(p) /\ NothingLeft(p)) =>
                /\ \A a \in Attributes : attribute_totals[p][a] = 0
                /\ contrib[p] # <<>> => \A a \in Attributes : Last(contrib[p])[a] = 0
          /\ pc[p] \in {"barrier", "done"} =>
                /\ bcasts # <<>>
                /\ Last(bcasts) = -1
                /\ Cardinality({i \in 1..Len(calls[p]) : calls[p][i] = "MPI_Bcast"})
                      = Len(bcasts)
    /\ AllDone => \A p \in Procs : calls[p] = calls[ROOT_RANK]
    /\ (phase = "jnsq" /\ ~AllDone) => ENABLED CoverLoop

\* In the second iteration a process without lines and a process whose
\* lines are all covered wait for the broadcast while lines of another
\* process are uncovered.
C5_Witness ==
    \E p, q \in Procs :
        /\ dm[p].s_size = 0
        /\ dm[q].s_size > 0
        /\ n_uncovered_lines[q] = 0
        /\ pc[q] = "bcast"
        /\ Len(calls[q]) = 4
        /\ Len(calls[p]) >= 3
        /\ global_n_uncovered_lines > 0

\* C6: when get_best_attribute_index returns -1 the root broadcasts -1 and
\* selects nothing: selected_attributes and global_n_uncovered_lines keep
\* their values and global_attribute_totals is not read out of its bounds.
C6_NothingSelected ==
    [][(Len(picks') = Len(picks) + 1 /\ Last(picks') = -1) =>
          /\ Last(bcasts') = -1
          /\ selected_attributes' = selected_attributes
          /\ global_n_uncovered_lines' = global_n_uncovered_lines
          /\ undefined' = {}]_vars

(***************************************************************************)
(* Properties of the disjoint matrix                                       *)
(***************************************************************************)
\* The process has set up its disjoint matrix.
HasWindow(p) == pc[p] # "setup"

\* The indexes of the lines of the window of a process.
WindowOf(p) == dm[p].s_offset..(dm[p].s_offset + dm[p].s_size - 1)

RECURSIVE SumOfSizes(_)
SumOfSizes(p) == IF p >= size THEN 0 ELSE dm[p].s_size + SumOfSizes(p + 1)

\* C7: the windows of the ranks, s_offset = floor(rank * P / N) and
\* s_size = floor((rank + 1) * P / N) - s_offset, are disjoint, follow one
\* another in the order of the ranks from 0 to P, and their sizes add up to P:
\* every line belongs to the window of exactly one process.
C7_WindowsPartition ==
    LET P == Cardinality(AllPairs)
    IN  /\ \A p \in Procs : HasWindow(p) =>
              /\ dm[p].s_offset = (p * P) \div size
              /\ dm[p].s_size = ((p + 1) * P) \div size - dm[p].s_offset
              /\ dm[p].s_size >= 0
              /\ p = 0 => dm[p].s_offset = 0
              /\ p = size - 1 => dm[p].s_offset + dm[p].s_size = P
              /\ (p + 1 < size /\ HasWindow(p + 1)) =>
                    dm[p + 1].s_offset = dm[p].s_offset + dm[p].s_size
              /\ \A q \in Procs : (q # p /\ HasWindow(q)) => WindowOf(p) \cap WindowOf(q) = {}
        /\ (\A p \in Procs : HasWindow(p)) =>
              /\ SumOfSizes(0) = P
              /\ \A k \in 0..(P - 1) : Cardinality({p \in Procs : k \in WindowOf(p)}) = 1

\* Three windows or more of lines that the processes do not divide evenly.
C7_Witness ==
    /\ phase = "dm"
    /\ \A p \in Procs : HasWindow(p)
    /\ size >= 3
    /\ Cardinality(AllPairs) > size
    /\ Cardinality(AllPairs) % size # 0
    /\ \E p, q \in Procs : dm[p].s_size # dm[q].s_size

\* The sum of count[a] * count[b] over a set of pairs of classes.
RECURSIVE SumOfProducts(_)
SumOfProducts(S) ==
    IF S = {} THEN 0
    ELSE LET x == CHOOSE y \in S : TRUE
         IN  classes[x[1]].n_observations * classes[x[2]].n_observations
             + SumOfProducts(S \ {x})

ClassPairs ==
    {c \in (0..(dataset.n_classes - 1)) \X (0..(dataset.n_classes - 1)) : c[1] < c[2]}

\* C8: get_dm_n_lines returns the sum of count[a] * count[b] over the pairs
\* of classes a < b, also when classes have no observations.
C8_PairCount ==
    /\ get_dm_n_lines(classes, dataset.n_classes) = SumOfProducts(ClassPairs)
    /\ \A p \in Procs : HasWindow(p) => dm[p].n_matrix_lines = SumOfProducts(ClassPairs)

\* Three classes, the second without observations, and lines between the
\* two others.
C8_Witness ==
    /\ phase = "dm"
    /\ dataset.n_classes = 3
    /\ classes[1].n_observations = 0
    /\ classes[0].n_observations >= 2
    /\ classes[2].n_observations >= 2
    /\ HasWindow(ROOT_RANK)
    /\ dm[ROOT_RANK].n_matrix_lines
          = classes[0].n_observations * classes[2].n_observations

\* The order of the enumeration: classA, then indexA, then classB, then indexB.
CanonicalLess(s, t) ==
    \/ s.classA < t.classA
    \/ s.classA = t.classA /\ s.indexA < t.indexA
    \/ s.classA = t.classA /\ s.indexA = t.indexA /\ s.classB < t.classB
    \/ s.classA = t.classA /\ s.indexA = t.indexA /\ s.classB = t.classB
          /\ s.indexB < t.indexB

\* calculate_class_offsets on the dataset of the state.
Seek(k) == calculate_class_offsets(n_observations_per_class, dataset.n_classes, k)

\* The walk of the totals functions from the offsets `from', for n lines at most.
WalkFrom(from, n) == WalkWindow(n_observations_per_class, dataset.n_classes, from, n)

LineLeq(a, b) == a = b \/ SetMin((a \ b) \cup (b \ a)) \in b

RowsSorted(data, n) == \A i \in 1..(n - 1) : LineLeq(data[i], data[i + 1])

\* C10 as the specification states it: after sort, remove_duplicates and
\* add_jnsqs every line is at most the line that follows it.
C10_SortedAfterPreprocessing ==
    phase = "jnsq" => RowsSorted(dataset.data, dataset.n_observations)

\* C10: after sort and after remove_duplicates every line is at most the
\* line that follows it; add_jnsqs keeps that order when the class takes one
\* bit (two classes).
C10_SortedBeforeJnsqs ==
    /\ phase \in {"sorted", "deduped", "indexed"} =>
          RowsSorted(dataset.data, dataset.n_observations)
    /\ (phase = "jnsq" /\ dataset.n_bits_for_class = 1) =>
          RowsSorted(dataset.data, dataset.n_observations)

\* A file of two classes that was not in order, with two observations that
\* differ in the class only, after add_jnsqs.
C10_Witness ==
    /\ phase = "jnsq"
    /\ dataset.n_bits_for_class = 1
    /\ dataset.n_observations = 3
    /\ max_inconsistency = 1
    /\ ~RowsSorted(file_lines, Len(file_lines))
    /\ RowsSorted(dataset.data, dataset.n_observations)

(***************************************************************************)
(* Properties of the lines after the setup                                 *)
(***************************************************************************)
\* The number of words of a line as it is stored: main derives n_words again
\* after add_jnsqs, the lines keep the length they were read with.
StoredWords ==
    LineWords(dataset.n_attributes - dataset.n_bits_for_jnsqs, dataset.n_classes)

\* C11: after remove_duplicates, and still after add_jnsqs, no two of the
\* n_observations lines of the dataset compare equal over all the words of
\* the line, the word of the class included.
C11_NoEqualRows ==
    phase \in {"deduped", "indexed", "jnsq"} =>
       \A i, j \in 1..dataset.n_observations :
          i # j => compare_lines_extra(dataset.data[i], dataset.data[j], StoredWords) # 0

\* A file with equal lines and with lines that differ in the class only,
\* after the whole setup.
C11_Witness ==
    /\ phase = "jnsq"
    /\ duplicates > 0
    /\ max_inconsistency > 0
    /\ dataset.n_observations >= 2

\* The indexes of the lines of class c, by the class word of the lines.
RowsOfClass(c) ==
    {i \in 1..dataset.n_observations : LastWord(dataset.data[i], StoredWords) = c}

SameBits(a, b, from, to) == \A q \in from..(to - 1) : (q \in a) = (q \in b)

\* C13: add_jnsqs keeps the lines discernible.  Two lines whose A attributes
\* differed before add_jnsqs differ after it in a position of 0..A+J-1, and
\* two lines with the same A attributes and different classes differ after
\* it in a position of A..A+J-1, where J is n_bits_for_jnsqs; for every A,
\* the ones where the jnsq bits are split between two words included.
C13_JnsqDiscerns ==
    [][(phase = "indexed" /\ phase' = "jnsq") =>
          LET A == dataset.n_attributes
              J == dataset'.n_bits_for_jnsqs
          IN  \A i, j \in 1..dataset.n_observations :
                 /\ ~SameBits(dataset.data[i], dataset.data[j], 0, A) =>
                       ~SameBits(dataset'.data[i], dataset'.data[j], 0, A + J)
                 /\ (/\ SameBits(dataset.data[i], dataset.data[j], 0, A)
                     /\ LastWord(dataset.data[i], dataset.n_words)
                           # LastWord(dataset.data[j], dataset.n_words)) =>
                       ~SameBits(dataset'.data[i], dataset'.data[j], A, A + J)]_vars

\* The positions of a line after the attributes and the jnsq bits, up to the
\* end of the last of the n_words words main derives after add_jnsqs.
Padding == dataset.n_attributes..(dataset.n_words * WORD_BITS - 1)

\* C14: after the setup, with n_words derived again from A + J, la ^ lb of
\* every pair of lines of two different classes has no bit set in the
\* positions A+J .. n_words*WORD_BITS-1, and the totals of those positions
\* are 0 on every process.
C14_PaddingZero ==
    phase = "jnsq" =>
       /\ \A t \in AllPairs : LineXor(t) \cap Padding = {}
       /\ \A p \in Procs :
             attribute_totals[p] # <<>> =>
                \A a \in Padding : attribute_totals[p][a] = 0

\* A dataset whose jnsq bits reach into a second word, with padding after
\* them, on a process that counted a jnsq bit of the second word.
C14_Witness ==
    /\ phase = "jnsq"
    /\ dataset.n_bits_for_jnsqs >= 2
    /\ dataset.n_attributes - dataset.n_bits_for_jnsqs < WORD_BITS
    /\ dataset.n_attributes > WORD_BITS
    /\ Padding # {}
    /\ \E p \in Procs :
          /\ attribute_totals[p] # <<>>
          /\ attribute_totals[p][WORD_BITS] > 0

\* C15: fill_class_arrays fails exactly when the class word of some line is
\* no class of the dataset (outside 0..n_classes-1), and then main leaves
\* with EXIT_FAILURE; it writes no entry outside the n_classes entries of
\* the array; when every class word is a class it returns OK.
C15_FillChecksLabels ==
    [][(phase = "deduped" /\ phase' # "deduped") =>
          /\ (phase' = "exit_failure") <=> (LabelsOutOfRange(dataset) # {})
          /\ DOMAIN classes' \subseteq 0..(dataset.n_classes - 1)]_vars

\* The file attributes hdf5_read_dataset_attributes refuses.
InvalidAttributes ==
    \/ hdf5_attributes.n_classes < 2
    \/ hdf5_attributes.n_observations < 2
    \/ hdf5_attributes.n_attributes < 1

\* C16: for a dataset with fewer than 2 classes, fewer than 2 observations
\* or no attribute, hdf5_read_dataset_attributes returns NOK and the program
\* ends with EXIT_FAILURE: it never sorts, removes duplicates, adds jnsqs or
\* enters the cover loop.
C16_InvalidRejected ==
    (InvalidAttributes /\ phase # "open") =>
       (attributes_result = "NOK" /\ phase = "exit_failure")

(***************************************************************************)
(* Properties of the shared buffer of a node                               *)
(***************************************************************************)
\* The node root is in a part of main that writes the lines of the buffer.
RootWrites == pc[ROOT_RANK] \in {"preprocess", "add_jnsqs"}

\* Process p is in a part of main that reads the lines of the buffer:
\* fill_class_arrays, the setup of the totals or the cover loop.
Reads(p) == pc[p] \in {"fill", "setup", "reduce", "bcast"}

\* The node root has issued its MPI_Bcast of n_bits_for_jnsqs.
RootSentJnsqs ==
    pc[ROOT_RANK] \notin {"preprocess", "barrier_288", "fill", "barrier_307", "add_jnsqs"}

\* A step changes the lines of the buffer only while the root is in a part
\* that writes, and never after the root's MPI_Bcast of n_bits_for_jnsqs.
OnlyRootWrites ==
    dataset'.data # dataset.data => (RootWrites /\ ~RootSentJnsqs)

\* C17 as the specification states it: the lines of the shared buffer are
\* written by the node root only; no other process reads them before the
\* root has read, sorted, removed the duplicates, added the jnsqs and issued
\* its broadcast after that; from then on no process writes them.
C17_NoReadBeforeBroadcast ==
    [][/\ OnlyRootWrites
       /\ \A p \in Procs \ {ROOT_RANK} : Reads(p) => RootSentJnsqs]_vars

\* C17: the lines of the shared buffer are written by the node root only,
\* and never while another process is in a part that reads them.  Another
\* process reads them before the root's broadcast of n_bits_for_jnsqs only
\* in fill_class_arrays, between the barrier that follows the read, the sort
\* and remove_duplicates and the barrier that precedes add_jnsqs; after that
\* broadcast no process writes them.
C17_NoReadWhileWritten ==
    [][/\ OnlyRootWrites
       /\ \A p \in Procs \ {ROOT_RANK} :
             Reads(p) =>
                /\ ~RootWrites
                /\ ~RootSentJnsqs =>
                      /\ pc[p] = "fill"
                      /\ pc[ROOT_RANK] \in {"fill", "barrier_307"}
                      /\ phase \in {"deduped", "indexed"}]_vars

\* Another process is about to read the lines in fill_class_arrays, the
\* root is in the barrier before add_jnsqs.
C17_Witness ==
    /\ size >= 2
    /\ pc[ROOT_RANK] = "barrier_307"
    /\ \E p \in Procs \ {ROOT_RANK} : pc[p] = "fill"
    /\ phase = "indexed"
    /\ dataset.n_bits_for_jnsqs = 0

(***************************************************************************)
(* The dataset with the lines [0|0], [0|1], [1|0], [1|1]                   *)
(***************************************************************************)
\* C18 as the specification states it: on the dataset of one attribute and
\* two classes with the lines [0|0], [0|1], [1|0], [1|1] the setup adds one
\* jnsq bit and the solution has two attributes, attribute 0 and the jnsq bit
\* at index 1.
C18_TwoAttributes ==
    /\ phase = "jnsq" => dataset.n_bits_for_jnsqs = 1
    /\ (phase = "jnsq" /\ AllDone) => selected_attributes = {0, 1}

\* C18: on that dataset the setup adds one jnsq bit, keeps the four lines,
\* and the solution is the jnsq bit at index 1 alone: its total is 4, the
\* number of pairs, and the loop ends after the first selection.
C18_JnsqBitAlone ==
    /\ phase = "jnsq" =>
          /\ dataset.n_bits_for_jnsqs = 1
          /\ dataset.n_attributes = 2
          /\ dataset.n_observations = 4
          /\ Cardinality(AllPairs) = 4
    /\ (phase = "jnsq" /\ AllDone) =>
          /\ selected_attributes = {1}
          /\ picks = <<1>>
          /\ bcasts = <<-1>>

\* The end of a run on more than one process, from a file that was not in
\* the sorted order.
C18_Witness ==
    /\ phase = "jnsq"
    /\ AllDone
    /\ size > 1
    /\ ~RowsSorted(file_lines, Len(file_lines))
    /\ selected_attributes = {1}
    /\ global_n_uncovered_lines = 0

(***************************************************************************)
(* Properties of the totals                                                *)
(***************************************************************************)
\* The number of MPI_Reduce calls process p has made.
Reductions(p) == Cardinality({i \in 1..Len(calls[p]) : calls[p][i] = "MPI_Reduce"})

\* The attributes that were selected before the k-th reduction.
SelectedBefore(k) == {picks[i] : i \in 1..(k - 1)}

\* The number of the lines of the sequence that no attribute of `selected'
\* discerns and whose la ^ lb has bit a set.
Undiscerned(lines, selected, a) ==
    Cardinality({i \in 1..Len(lines) :
                    /\ LineXor(lines[i]) \cap selected = {}
                    /\ a \in LineXor(lines[i])})

\* C19: at every MPI_Reduce of a process, the first one included, the total
\* of each attribute a of 0..A+J-1 is the number of lines of the window of
\* the process that no attribute selected so far discerns and whose xor has
\* bit a set; the totals the root holds after the reduction are those
\* numbers over all the lines of the disjoint matrix.
C19_TotalsCountUncovered ==
    phase = "jnsq" =>
       /\ \A p \in Procs :
             pc[p] \in {"reduce", "bcast"} =>
                \A a \in Attributes :
                   attribute_totals[p][a]
                      = Undiscerned(WindowLines(dm[p]), SelectedBefore(Reductions(p)), a)
       /\ (picks # <<>> /\ \A i \in 1..(Len(picks) - 1) : picks[i] >= 0) =>
             \A a \in Attributes :
                global_attribute_totals[a]
                   = Cardinality({t \in AllPairs :
                                     /\ LineXor(t) \cap SelectedBefore(Len(picks)) = {}
                                     /\ a \in LineXor(t)})

\* A process other than the root at its third reduction or a later one, with
\* lines of its window still to cover.
C19_Witness ==
    /\ phase = "jnsq"
    /\ \E p \in Procs \ {ROOT_RANK} :
          /\ pc[p] = "bcast"
          /\ Reductions(p) >= 3
          /\ \E a \in Attributes : attribute_totals[p][a] > 0

\* The attributes get_best_attribute_index can return: those in which some
\* pair of lines of two classes differs.
Selectable == Attributes \cap UNION {LineXor(t) : t \in AllPairs}

\* Process p is in the loop and, were attribute a selected next, it would
\* reach the comparison n_uncovered_lines < attribute_totals[a]: the lines
\* of its window are not all covered after the selection.
ReachesComparison(p, a) ==
    /\ pc[p] \in {"reduce", "bcast"}
    /\ n_uncovered_lines[p] # WrappedAround
    /\ n_uncovered_lines[p] - attribute_totals[p][a] # 0

\* C20: in every state of the loop and for every attribute that can be
\* selected, the "Add" branch and the "Sub" branch, run on the state of
\* the process, leave the same totals for the attributes 0..A+J-1 and the
\* same covered lines, whichever side of the comparison
\* n_uncovered_lines < attribute_totals[best] the program takes.
C20_AddSubEquivalent ==
    phase = "jnsq" =>
       \A p \in Procs : \A a \in Selectable :
          ReachesComparison(p, a) =>
             \E column \in {get_column(dm[p], a)} :
             \E add \in {AddUpdate(p, column)} :
             \E sub \in {SubUpdate(p, column)} :
                /\ add.covered_lines = sub.covered_lines
                /\ \A b \in Attributes : add.attribute_totals[b] = sub.attribute_totals[b]

\* A process that will take the "Add" branch for an attribute whose column
\* holds lines that are covered already and lines that are not.
C20_Witness ==
    /\ phase = "jnsq"
    /\ \E p \in Procs : \E a \in Selectable :
          /\ ReachesComparison(p, a)
          /\ n_uncovered_lines[p] - attribute_totals[p][a] < attribute_totals[p][a]
          /\ get_column(dm[p], a) \cap covered_lines[p] # {}
          /\ get_column(dm[p], a) \ covered_lines[p] # {}

(***************************************************************************)
(* Properties of the covered lines and of the counters                     *)
(***************************************************************************)
\* The lines of the window of process p that an attribute of `selected'
\* discerns, as positions 0..s_size-1 of the window.
DiscernedBy(p, selected) ==
    {k \in 0..(dm[p].s_size - 1) :
        LineXor(WindowLines(dm[p])[k + 1]) \cap selected # {}}

\* The attributes the root had selected when process p made its last
\* MPI_Reduce call.
SelectedAtReduction(p) == SelectedBefore(Reductions(p))

InReduction(p) == pc[p] \in {"reduce", "bcast"}
LeftLoop(p) == pc[p] \in {"barrier", "done"}

\* C21 as stated: at every reduction of a process, and when it has left the
\* loop, bit k of covered_lines is set if and only if a selected attribute
\* discerns line k of its window.
C21_CoveredExact ==
    phase = "jnsq" =>
       \A p \in Procs :
          /\ InReduction(p) =>
                covered_lines[p] = DiscernedBy(p, SelectedAtReduction(p))
          /\ LeftLoop(p) =>
                covered_lines[p] = DiscernedBy(p, selected_attributes)

\* C21, amended: covered_lines starts empty and only grows; a bit that is
\* set is the bit of a line that a selected attribute discerns; and at a
\* reduction of a process that still has uncovered lines, every line that a
\* selected attribute discerns has its bit set.
C21_CoveredSound ==
    /\ [](phase = "jnsq" =>
            \A p \in Procs :
               /\ pc[p] = "setup" => covered_lines[p] = {}
               /\ (InReduction(p) \/ LeftLoop(p)) =>
                     covered_lines[p] \subseteq DiscernedBy(p, SelectedAtReduction(p))
               /\ (InReduction(p) /\ n_uncovered_lines[p] # 0) =>
                     covered_lines[p] = DiscernedBy(p, SelectedAtReduction(p)))
    /\ [][\A p \in Procs : covered_lines[p] \subseteq covered_lines'[p]]_vars

\* A process at a reduction with all the lines of its window covered and
\* the lines the last selected attribute discerns not in covered_lines,
\* after an iteration that set bits.
C21_Witness ==
    /\ phase = "jnsq"
    /\ \E p \in Procs :
          /\ InReduction(p)
          /\ n_uncovered_lines[p] = 0
          /\ covered_lines[p] # {}
          /\ covered_lines[p] # DiscernedBy(p, SelectedAtReduction(p))
          /\ DiscernedBy(p, SelectedAtReduction(p)) = 0..(dm[p].s_size - 1)

\* The sum of the local counters of the processes p..size-1.
RECURSIVE SumUncovered(_)
SumUncovered(p) ==
    IF p >= size THEN 0 ELSE n_uncovered_lines[p] + SumUncovered(p + 1)

\* Every process has made the MPI_Reduce call the root is in.
AllInReduction ==
    /\ pc[ROOT_RANK] = "reduce"
    /\ \A p \in Procs : Reductions(p) = Reductions(ROOT_RANK)

\* A counter was decremented by more than it held.
Underflow(counter) == counter = WrappedAround

\* C22: no decrement takes a counter below zero; at every reduction the
\* local counter of a process is the number of lines of its window that no
\* selected attribute discerns, and the local counters add up to
\* global_n_uncovered_lines of the root.
C22_CountersConsistent ==
    phase = "jnsq" =>
       /\ ~Underflow(global_n_uncovered_lines)
       /\ \A p \in Procs :
             /\ ~Underflow(n_uncovered_lines[p])
             /\ InReduction(p) =>
                   n_uncovered_lines[p]
                      = dm[p].s_size
                           - Cardinality(DiscernedBy(p, SelectedAtReduction(p)))
       /\ AllInReduction => SumUncovered(0) = global_n_uncovered_lines

\* The number of MPI_Bcast calls process p has made.
Broadcasts(p) == Cardinality({i \in 1..Len(calls[p]) : calls[p][i] = "MPI_Bcast"})

\* Process p leaves MPI_Bcast in this step and starts an iteration.
StartsIteration(p) ==
    IF p = ROOT_RANK THEN pc[p] = "reduce" /\ picks' # picks
    ELSE pc[p] = "bcast" /\ calls'[p] # calls[p]

\* The value of best_attribute the iteration of the step runs with.
BestOfIteration(p) == IF p = ROOT_RANK THEN Last(bcasts') ELSE bcasts[Broadcasts(p)]

\* attribute_totals[best_attribute] as line 539 reads it is the number of
\* bits of column(best_attribute) & ~covered_lines.
DeltaIsNewlyCovered(p, best_attribute) ==
    attribute_totals[p][best_attribute]
       = Cardinality(get_column(dm[p], best_attribute) \ covered_lines[p])

\* C23 as stated: in every iteration of every process the total of the
\* selected attribute, read before the update, is the number of lines of the
\* column of the attribute that are not in covered_lines.
C23_DeltaIsPopcount ==
    [][\A p \in Procs :
          (StartsIteration(p) /\ BestOfIteration(p) >= 0) =>
             DeltaIsNewlyCovered(p, BestOfIteration(p))]_vars

\* C23, amended: the equality holds in every iteration of a process that
\* has uncovered lines when the iteration starts; a process with no
\* uncovered lines reads 0.
C23_DeltaOfUncovered ==
    [][\A p \in Procs :
          (StartsIteration(p) /\ BestOfIteration(p) >= 0) =>
             IF n_uncovered_lines[p] # 0
             THEN DeltaIsNewlyCovered(p, BestOfIteration(p))
             ELSE attribute_totals[p][BestOfIteration(p)] = 0]_vars

\* A process after its first iteration that has received an attribute
\* whose column holds lines that are covered and lines that are not.
C23_Witness ==
    /\ phase = "jnsq"
    /\ \E p \in Procs \ {ROOT_RANK} :
          /\ pc[p] = "bcast"
          /\ Reductions(p) >= 2
          /\ Len(bcasts) >= Broadcasts(p)
          /\ bcasts[Broadcasts(p)] >= 0
          /\ n_uncovered_lines[p] # 0
          /\ get_column(dm[p], bcasts[Broadcasts(p)]) \cap covered_lines[p] # {}
          /\ get_column(dm[p], bcasts[Broadcasts(p)]) \ covered_lines[p] # {}

(***************************************************************************)
(* Properties of the solution                                              *)
(***************************************************************************)
MIN(a, b) == IF a <= b THEN a ELSE b

\* The iterations of the root so far: one per call of
\* get_best_attribute_index.
Iterations == Len(picks)

\* C24: selected_attributes only grows; the attribute an iteration selects
\* has a total greater than 0 and was not selected before; the attributes
\* selected before have total 0; so the solution has as many attributes as
\* there were iterations, and at most min(A+J, P).
C24_SelectsNewAttribute ==
    /\ [](phase = "jnsq" =>
            /\ \A i \in 1..Iterations : picks[i] \in Attributes
            /\ \A i, j \in 1..Iterations : i # j => picks[i] # picks[j]
            /\ Iterations > 0 =>
                  /\ Last(picks) \in Attributes
                        => global_attribute_totals[Last(picks)] > 0
                  /\ \A i \in 1..(Iterations - 1) :
                        picks[i] \in Attributes
                           => global_attribute_totals[picks[i]] = 0
            /\ Cardinality(selected_attributes) = Iterations
            /\ Cardinality(selected_attributes)
                  <= MIN(dataset.n_attributes, Cardinality(AllPairs)))
    /\ [][selected_attributes \subseteq selected_attributes']_vars

(***************************************************************************)
(* Properties of remove_duplicates                                         *)
(***************************************************************************)
\* The first line of every run of equal lines of a sequence, in the order
\* of the sequence.
RECURSIVE KeepFirst(_)
KeepFirst(s) ==
    IF s = <<>> THEN <<>>
    ELSE LET front == SubSeq(s, 1, Len(s) - 1)
         IN  IF front # <<>> /\ Last(front) = Last(s)
             THEN KeepFirst(front)
             ELSE Append(KeepFirst(front), Last(s))

\* The lines 1..n of a buffer.
LinesOf(data, n) == SubSeq(data, 1, n)

\* C25: remove_duplicates on sorted lines leaves the first line of every run
\* of equal lines, in the sorted order, in the lines 0..n-1, sets
\* n_observations to the number n of distinct lines and returns
\* n_observations - n; the set of the distinct lines is the same.
C25_KeepsFirstOfEachRun ==
    [][(phase = "sorted" /\ phase' # "sorted") =>
          \E old \in {LinesOf(dataset.data, dataset.n_observations)} :
          \E n \in {Cardinality({old[i] : i \in 1..Len(old)})} :
             /\ phase' = "deduped"
             /\ dataset'.n_observations = n
             /\ duplicates' = dataset.n_observations - n
             /\ LinesOf(dataset'.data, n) = KeepFirst(old)
             /\ {dataset'.data[i] : i \in 1..n} = {old[i] : i \in 1..Len(old)}]_vars

(***************************************************************************)
(* laid_hdf5_mpi.c, main: the cover loop on the steps of the matrix.       *)
(* The root of the node writes one step, the indexes of the two lines of   *)
(* a pair, for every line of the disjoint matrix; a process works on the   *)
(* steps s_offset .. s_offset + s_size - 1.  The dataset is the one the    *)
(* setup of laid_by_lines.c leaves.  The counters of this program are      *)
(* uint32_t.  Of the variables of the loop n_uncovered_lines is not used:  *)
(* the program has the counter of the root only, which the model keeps in  *)
(* global_n_uncovered_lines.                                               *)
(***************************************************************************)
\* The four loops that generate the steps, from (ca, ia, cb, ib) on.
RECURSIVE StepsLoop(_, _, _, _, _, _, _, _)
StepsLoop(opc, nopc, nc, ca, ia, cb, ib, steps) ==
    IF ca >= nc - 1 THEN steps
    ELSE IF ia >= nopc[ca] THEN StepsLoop(opc, nopc, nc, ca + 1, 0, ca + 2, 0, steps)
    ELSE IF cb >= nc THEN StepsLoop(opc, nopc, nc, ca, ia + 1, ca + 1, 0, steps)
    ELSE IF ib >= nopc[cb] THEN StepsLoop(opc, nopc, nc, ca, ia, cb + 1, 0, steps)
    ELSE StepsLoop(opc, nopc, nc, ca, ia, cb, ib + 1,
                   Append(steps, [indexA |-> opc[ca][ia + 1],
                                  indexB |-> opc[cb][ib + 1]]))

GenerateSteps ==
    StepsLoop(observations_per_class, n_observations_per_class, dataset.n_classes,
              0, 0, 1, 0, <<>>)

\* dm.n_matrix_lines, dm.s_offset, dm.s_size and dm.steps of a process, and
\* the number of words of its columns.
StepsDm(rank) ==
    LET n_matrix_lines == get_dm_n_lines(classes, dataset.n_classes)
        s_offset == BLOCK_LOW(rank, size, n_matrix_lines)
        s_size == BLOCK_SIZE(rank, size, n_matrix_lines)
    IN  [n_matrix_lines |-> n_matrix_lines,
         n_words_in_a_column |-> n_matrix_lines \div WORD_BITS
                                 + (IF n_matrix_lines % WORD_BITS # 0 THEN 1 ELSE 0),
         s_offset |-> s_offset,
         s_size |-> s_size,
         steps |-> SubSeq(GenerateSteps, s_offset + 1, s_offset + s_size)]

\* la ^ lb of the two lines of a step.
StepXor(step) ==
    LET la == dataset.data[step.indexA]
        lb == dataset.data[step.indexB]
    IN  (la \ lb) \cup (lb \ la)

n_full_words == dataset.n_words - 1
n_last_word == WORD_BITS - (dataset.n_attributes % WORD_BITS)

\* The bits the two loops over a line count: every bit of the full words
\* and the bits WORD_BITS - 1 down to n_last_word of the last word.  The
\* value of c_attribute at a bit is the position of the bit.
CountedBits ==
    (0..(n_full_words * WORD_BITS - 1))
       \cup {PosOf(n_full_words, bit) : bit \in n_last_word..(WORD_BITS - 1)}

\* attribute_totals[c_attribute] += BIT_CHECK(lxor, bit) for the bits of a line.
AddStep(totals, lxor) ==
    CHOOSE r \in {[a \in DOMAIN t |-> t[a] + (IF a \in x /\ a \in CountedBits THEN 1 ELSE 0)] :
                     <<t, x>> \in {<<totals, lxor>>}} : TRUE

\* The loop over the steps line..s_size-1 of a process that adds the lines
\* of `lines' to the totals.
RECURSIVE StepsPass(_, _, _, _)
StepsPass(totals, d, line, lines) ==
    IF line >= d.s_size THEN totals
    ELSE StepsPass(IF line \in lines THEN AddStep(totals, StepXor(d.steps[line + 1]))
                   ELSE totals,
                   d, line + 1, lines)

\* calloc(dataset.n_attributes, sizeof(uint32_t))
StepsZeroTotals == [a \in 0..(dataset.n_attributes - 1) |-> 0]

\* "Build best column" that starts from an empty column in every iteration.
BuildBestColumn_fresh(d, best_attribute, column) ==
    {line \in 0..(d.s_size - 1) : best_attribute \in StepXor(d.steps[line + 1])}

\* "Build best column": BIT_SET on best_column, which holds the bits of the
\* iterations before.
BuildBestColumn(d, best_attribute, column) ==
    LET best_word == best_attribute \div WORD_BITS
        best_bit == WORD_BITS - (best_attribute % WORD_BITS) - 1
    IN  column \cup {line \in 0..(d.s_size - 1) :
                        PosOf(best_word, best_bit) \in StepXor(d.steps[line + 1])}

\* The totals of an iteration that count every line of the column, covered
\* before or not.
UpdateTotals_covered(d, covered, column, totals) ==
    StepsPass(memset(totals, dataset.n_attributes), d, 0, column)

\* "Update attributes totals": the totals of the lines that are not covered
\* and are in best_column.
UpdateTotals(d, covered, column, totals) ==
    StepsPass(memset(totals, dataset.n_attributes), d, 0, column \ covered)

\* The subtraction of two uint32_t.
Sub32(a, b) == IF a = WrappedAround THEN WrappedAround
               ELSE IF a >= b THEN a - b ELSE WrappedAround

\* The body of the loop between MPI_Bcast and MPI_Reduce.
StepsBody(p, best_attribute, covered) ==
    IF dm[p].s_size = 0
    THEN [attribute_totals |-> attribute_totals[p], best_column |-> best_column[p]]
    ELSE LET column == BuildBestColumn(dm[p], best_attribute, best_column[p])
         IN  [attribute_totals |-> UpdateTotals(dm[p], covered, column, attribute_totals[p]),
              best_column |-> column]

\* A process leaves MPI_Bcast with best_attribute and runs to its next
\* blocking call.  covered is covered_lines of the process at MPI_Bcast.  A
\* process other than the root leaves MPI_Reduce when its buffer is sent and
\* goes on to "update covered lines"; the root does that when the reduction
\* is complete.
StepsContinue(p, best_attribute, covered, bcast_call, queues) ==
    IF best_attribute < 0
    THEN /\ pc' = [pc EXCEPT ![p] = "barrier"]
         /\ calls' = [calls EXCEPT ![p] = @ \o bcast_call \o <<"MPI_Barrier">>]
         /\ contrib' = queues
         /\ covered_lines' = [covered_lines EXCEPT ![p] = covered]
         /\ UNCHANGED <<attribute_totals, best_column>>
    ELSE \E body \in {StepsBody(p, best_attribute, covered)} :
             /\ attribute_totals' = [attribute_totals EXCEPT ![p] = body.attribute_totals]
             /\ best_column' = [best_column EXCEPT ![p] = body.best_column]
             /\ covered_lines' =
                   [covered_lines EXCEPT ![p] =
                       IF p = ROOT_RANK THEN covered
                       ELSE update_covered_lines(body.best_column, covered)]
             /\ contrib' = [queues EXCEPT
                              ![p] = Append(@, SendBuffer(body.attribute_totals))]
             /\ pc' = [pc EXCEPT ![p] = IF p = ROOT_RANK THEN "reduce" ELSE "bcast"]
             /\ calls' = [calls EXCEPT ![p] =
                             @ \o bcast_call \o <<"MPI_Reduce">>
                               \o (IF p = ROOT_RANK THEN <<>> ELSE <<"MPI_Bcast">>)]

\* Lines 315 to 602 of a process: the steps, the arrays of the loop, the
\* initial totals and the first call of MPI_Reduce.
StepsSetup(p) ==
    /\ phase = "jnsq"
    /\ pc[p] = "setup"
    /\ \E d \in {StepsDm(p)} :
       \E totals \in {StepsPass(StepsZeroTotals, d, 0, 0..(d.s_size - 1))} :
           /\ dm' = [dm EXCEPT ![p] = d]
           /\ covered_lines' = [covered_lines EXCEPT ![p] = {}]
           /\ best_column' = [best_column EXCEPT ![p] = {}]
           /\ attribute_totals' = [attribute_totals EXCEPT ![p] = totals]
           /\ contrib' = [contrib EXCEPT ![p] = Append(@, SendBuffer(totals))]
           /\ IF p = ROOT_RANK
              THEN /\ global_attribute_totals' = StepsZeroTotals
                   /\ selected_attributes' = {}
                   /\ global_n_uncovered_lines' = d.n_matrix_lines
              ELSE UNCHANGED <<global_attribute_totals, selected_attributes,
                               global_n_uncovered_lines>>
    /\ pc' = [pc EXCEPT ![p] = IF p = ROOT_RANK THEN "reduce" ELSE "bcast"]
    /\ calls' = [calls EXCEPT ![p] = IF p = ROOT_RANK THEN <<"MPI_Reduce">>
                                     ELSE <<"MPI_Reduce", "MPI_Bcast">>]
    /\ UNCHANGED <<prevars, size, n_uncovered_lines, bcasts, picks, undefined,
                   shift_build, next_size, ref>>

\* "Update global totals": global_attribute_totals[i] -= attribute_totals_buffer[i]
UpdateGlobalTotals(totals, buffer) ==
    [i \in DOMAIN totals |-> Sub32(totals[i], buffer[i])]

\* The root leaves MPI_Reduce: the first one gives the global totals, the
\* later ones the buffer that is subtracted from them after "update covered
\* lines".  Then the root selects the best attribute, broadcasts it and runs
\* to its next blocking call: lines 600 to 836.
StepsRootStep ==
    /\ pc[ROOT_RANK] = "reduce"
    /\ \A p \in Procs : contrib[p] # <<>>
    /\ \E buffer \in {Reduced(global_attribute_totals)} :
       \E covered \in {IF picks = <<>> THEN covered_lines[ROOT_RANK]
                       ELSE update_covered_lines(best_column[ROOT_RANK],
                                                 covered_lines[ROOT_RANK])} :
       \E totals \in {IF picks = <<>> THEN buffer
                      ELSE UpdateGlobalTotals(global_attribute_totals, buffer)} :
       \E best \in {get_best_attribute_index(totals, dataset.n_attributes)} :
           /\ global_attribute_totals' = totals
           /\ picks' = Append(picks, best)
           /\ IF best >= 0
              THEN /\ UNCHANGED <<undefined, shift_build>>
                   /\ global_n_uncovered_lines' =
                         Sub32(global_n_uncovered_lines, totals[best])
              ELSE /\ undefined' = undefined \cup {"global_attribute_totals[-1]",
                                                  "shift by WORD_BITS"}
                   /\ shift_build' \in (IF shift_build = "unknown"
                                        THEN {"masked", "none"} ELSE {shift_build})
                   /\ \E v \in OutOfBoundsReads :
                         global_n_uncovered_lines' = Sub32(global_n_uncovered_lines, v)
           /\ selected_attributes' =
                 mark_attribute_as_selected(selected_attributes, best,
                                            ShiftedBit(shift_build'))
           /\ \E best_attribute \in {IF global_n_uncovered_lines' = 0 THEN -1 ELSE best} :
                  /\ bcasts' = Append(bcasts, best_attribute)
                  /\ StepsContinue(ROOT_RANK, best_attribute, covered, <<"MPI_Bcast">>,
                                   [p \in Procs |-> Tail(contrib[p])])
    /\ UNCHANGED <<prevars, size, dm, n_uncovered_lines, next_size, ref>>

\* A process other than the root leaves MPI_Bcast and runs to its next
\* blocking call.
StepsRecv(p) ==
    /\ p # ROOT_RANK
    /\ pc[p] = "bcast"
    /\ \E round \in {Cardinality({i \in 1..Len(calls[p]) : calls[p][i] = "MPI_Bcast"})} :
           /\ Len(bcasts) >= round
           /\ StepsContinue(p, bcasts[round], covered_lines[p], <<>>, contrib)
    /\ UNCHANGED <<prevars, size, dm, n_uncovered_lines, global_attribute_totals,
                   selected_attributes, global_n_uncovered_lines, bcasts, picks,
                   undefined, shift_build, next_size, ref>>

NextSteps ==
    \/ Sort
       /\ UNCHANGED loopvars
    \/ RemoveDuplicates
       /\ UNCHANGED loopvars
    \/ FillClassArrays
       /\ UNCHANGED loopvars
    \/ AddJnsqs
       /\ UNCHANGED loopvars
    \/ \E p \in Procs : StepsSetup(p)
    \/ StepsRootStep
    \/ \E p \in Procs : StepsRecv(p)
    \/ Barrier

\* laid_hdf5_mpi.c on the files of 2..MaxRows different lines of two
\* attributes and two or three classes, with one or two processes.
InitSteps ==
    /\ \E C \in ClassCounts :
          \E S \in {T \in SUBSET FileLines(2, C) : Cardinality(T) \in 2..MaxRows} :
             InitFrom(2, C, DescendingFile(S, LineWords(2, C)))
    /\ \E n \in 1..2 : LoopInit(n, 0)

SpecSteps == InitSteps /\ [][NextSteps]_vars

(***************************************************************************)
(* Properties of the column of the selected attribute                      *)
(***************************************************************************)
\* Process p has built a column and is in the MPI_Reduce that follows or in
\* the next MPI_Bcast.
HasBuilt(p) ==
    /\ dm[p].s_size > 0
    /\ IF p = ROOT_RANK THEN pc[p] = "reduce" /\ bcasts # <<>>
       ELSE pc[p] = "bcast" /\ Broadcasts(p) >= 2

\* The values of best_attribute process p has built columns for, in order.
BuiltBy(p) ==
    IF p = ROOT_RANK THEN bcasts ELSE SubSeq(bcasts, 1, Broadcasts(p) - 1)

\* The positions k of the window of p at which the xor of the two lines of
\* the pair s_offset + k of the canonical order has a bit of `attributes'.
ColumnOf(p, attributes) ==
    {k \in 0..(dm[p].s_size - 1) :
        LineXor(Seek(dm[p].s_offset + k)) \cap attributes # {}}

\* C26 as stated: bit k of the column built for attribute a is set if and
\* only if the xor of the pair s_offset + k has bit a set; no bit at or
\* after the length of the window is set.
C26_ColumnOfAttribute ==
    phase = "jnsq" =>
       \A p \in Procs :
          HasBuilt(p) => best_column[p] = ColumnOf(p, {Last(BuiltBy(p))})

\* C26, amended for the column that is never cleared: bit k is set if and
\* only if the xor of the pair s_offset + k has set the bit of the
\* attribute or of an attribute of an earlier iteration; no bit at or after
\* the length of the window is set.
C26_ColumnAccumulates ==
    phase = "jnsq" =>
       \A p \in Procs :
          HasBuilt(p) =>
             /\ best_column[p]
                   = ColumnOf(p, {BuiltBy(p)[i] : i \in 1..Len(BuiltBy(p))})
             /\ ColumnOf(p, {Last(BuiltBy(p))}) \subseteq best_column[p]
             /\ best_column[p] \subseteq 0..(dm[p].s_size - 1)

\* A process other than the root whose window starts after line 0, after
\* its second column: the column holds a line that the second attribute
\* discerns and a line that only the first one discerns.
C26_Witness ==
    /\ phase = "jnsq"
    /\ \E p \in Procs \ {ROOT_RANK} :
          /\ HasBuilt(p)
          /\ dm[p].s_offset > 0
          /\ Len(BuiltBy(p)) = 2
          /\ ColumnOf(p, {Last(BuiltBy(p))}) # {}
          /\ best_column[p] \ ColumnOf(p, {Last(BuiltBy(p))}) # {}

(***************************************************************************)
(* Properties of the phases of the shared buffer of a node                 *)
(***************************************************************************)
\* Process p is in fill_class_arrays.
InFill(p) == pc[p] = "fill"

\* Process p is in the setup of the totals or in the cover loop: the totals
\* passes and get_column read the lines.
InTotals(p) == pc[p] \in {"setup", "reduce", "bcast"}

\* C27: in laid_by_lines.c no process reads the lines of the shared buffer
\* of the node while the node root writes them.  While the root reads the
\* file, sorts and removes the duplicates every other process is in the
\* MPI_Bcast that follows; fill_class_arrays of a process runs on the lines
\* remove_duplicates left; while the root is in add_jnsqs every other
\* process has left fill_class_arrays and is in the MPI_Bcast that follows;
\* the totals and the columns of a process are computed on the lines
\* add_jnsqs left.
C27_PhasesSeparated ==
    \A p \in Procs \ {ROOT_RANK} :
       /\ ~(RootWrites /\ (InFill(p) \/ InTotals(p)))
       /\ pc[ROOT_RANK] = "preprocess" => pc[p] = "bcast_attributes"
       /\ pc[ROOT_RANK] = "add_jnsqs" => pc[p] = "bcast_jnsqs"
       /\ InFill(p) => phase \in {"deduped", "indexed"}
       /\ InTotals(p) => phase = "jnsq"

\* The root is in add_jnsqs on lines of which two have the same attributes,
\* after fill_class_arrays of the two other processes.
C27_Witness ==
    /\ size >= 3
    /\ pc[ROOT_RANK] = "add_jnsqs"
    /\ phase = "indexed"
    /\ \A p \in Procs \ {ROOT_RANK} : pc[p] = "bcast_jnsqs"
    /\ \E i, j \in 1..dataset.n_observations :
          /\ i # j
          /\ has_same_attributes(dataset.data[i], dataset.data[j], dataset.n_attributes)


(***************************************************************************)
(* The widths of the setup of the disjoint matrix.  get_dm_n_lines         *)
(* computes in uint64_t and the fields of dm_t are uint32_t.  A value is   *)
(* held as its four 16-bit limbs, least significant first, so that 2^32    *)
(* and 2^64 keep their places: a uint32_t keeps limbs 1 and 2, a uint64_t  *)
(* all four.  The counts drawn have limbs of at most MaxCount + 1, which   *)
(* keeps every column of a product far below the range of the checker.     *)
(***************************************************************************)
LimbBase == 65536

RECURSIVE Carry(_, _, _)
\* Carries through the columns i..4; what leaves limb 4 is lost (mod 2^64).
Carry(cols, i, carry) ==
    IF i > 4 THEN <<>>
    ELSE <<(cols[i] + carry) % LimbBase>>
         \o Carry(cols, i + 1, (cols[i] + carry) \div LimbBase)

\* A small value as a uint64_t.
U64(n) == Carry(<<n, 0, 0, 0>>, 1, 0)

Add64(x, y) == Carry([i \in 1..4 |-> x[i] + y[i]], 1, 0)

Diff64(x, y) == Carry([i \in 1..4 |-> x[i] - y[i]], 1, 0)

RECURSIVE MulColumn(_, _, _, _)
\* Column k of the product: the sum of x[i] * y[k + 1 - i].
MulColumn(x, y, k, i) ==
    IF i > k THEN 0 ELSE x[i] * y[k + 1 - i] + MulColumn(x, y, k, i + 1)

Mul64(x, y) == Carry([k \in 1..4 |-> MulColumn(x, y, k, 1)], 1, 0)

RECURSIVE DivLimbs(_, _, _, _)
\* Long division by a small divisor, from limb i down; limbs 1..i of the quotient.
DivLimbs(x, k, i, rem) ==
    IF i = 0 THEN <<>>
    ELSE LET cur == rem * LimbBase + x[i]
         IN  DivLimbs(x, k, i - 1, cur % k) \o <<cur \div k>>

Div64(x, k) == DivLimbs(x, k, 4, 0)

\* The conversion of a uint64_t to uint32_t: the two high limbs are dropped.
Uint32(x) == <<x[1], x[2], 0, 0>>

RECURSIVE DmLines64B(_, _, _, _, _)
RECURSIVE DmLines64A(_, _, _, _)

\* The inner loop of get_dm_n_lines over class_b, in uint64_t.
DmLines64B(cls, n_classes, class_a, class_b, n) ==
    IF class_b >= n_classes THEN n
    ELSE DmLines64B(cls, n_classes, class_a, class_b + 1,
                    Add64(n, Mul64(cls[class_a].n_observations,
                                   cls[class_b].n_observations)))

\* The outer loop of get_dm_n_lines over class_a.
DmLines64A(cls, n_classes, class_a, n) ==
    IF class_a >= n_classes - 1 THEN n
    ELSE DmLines64A(cls, n_classes, class_a + 1,
                    DmLines64B(cls, n_classes, class_a, class_a + 1, n))

\* get_dm_n_lines with its uint64_t result.
get_dm_n_lines64(cls, n_classes) == DmLines64A(cls, n_classes, 0, U64(0))

\* The macros of utils/block.h on a uint32_t n: every operation is unsigned
\* 32-bit arithmetic.
BLOCK_LOW32(id, p, n) == Uint32(Div64(Uint32(Mul64(U64(id), n)), p))
BLOCK_HIGH32(id, p, n) == Uint32(Diff64(BLOCK_LOW32(id + 1, p, n), U64(1)))
BLOCK_SIZE32(id, p, n) ==
    Uint32(Add64(Uint32(Diff64(BLOCK_HIGH32(id, p, n), BLOCK_LOW32(id, p, n))), U64(1)))

\* Lines 361 to 367: the three assignments to the uint32_t fields of dm.
SetupDm32(rank) ==
    LET n_matrix_lines == Uint32(get_dm_n_lines64(classes, dataset.n_classes))
    IN  [n_matrix_lines |-> n_matrix_lines,
         s_offset |-> BLOCK_LOW32(rank, size, n_matrix_lines),
         s_size |-> BLOCK_SIZE32(rank, size, n_matrix_lines)]

\* Lines 361 to 367, 453 and 482 of a process: the fields of dm and the
\* two uint64_t counters that are initialised from them.
SetupWidths(p) ==
    /\ phase = "widths"
    /\ pc[p] = "setup"
    /\ \E d \in {SetupDm32(p)} :
          /\ dm' = [dm EXCEPT ![p] = d]
          /\ n_uncovered_lines' = [n_uncovered_lines EXCEPT ![p] = d.s_size]
          /\ global_n_uncovered_lines' =
                IF p = ROOT_RANK THEN d.n_matrix_lines ELSE global_n_uncovered_lines
    /\ pc' = [pc EXCEPT ![p] = "window"]
    /\ UNCHANGED <<prevars, size, covered_lines, best_column, attribute_totals,
                   global_attribute_totals, selected_attributes,
                   contrib, bcasts, calls, picks, undefined,
                   shift_build, next_size, ref>>

\* The numbers of observations of a class: up to MaxCount, and up to
\* MaxCount more than 2^16.
WideCounts == {<<lo, hi, 0, 0>> : lo \in 0..MaxCount, hi \in 0..1}

InitWidths ==
    /\ \E C \in ClassCounts : \E counts \in [0..(C - 1) -> WideCounts] :
          /\ dataset = [n_attributes |-> 1, n_words |-> 1, n_bits_for_jnsqs |-> 0,
                        n_observations |-> 0, n_classes |-> C,
                        n_bits_for_class |-> NBitsForClass(C), data |-> <<>>]
          /\ classes = ClassIndexOf(counts)
          /\ n_observations_per_class = counts
          /\ observations_per_class = [c \in 0..(C - 1) |-> <<>>]
    /\ file_lines = <<>>
    /\ hdf5_attributes = [n_classes |-> dataset.n_classes, n_observations |-> 0,
                          n_attributes |-> 1]
    /\ attributes_result = "OK"
    /\ phase = "widths"
    /\ duplicates = 0
    /\ max_inconsistency = 0
    /\ \E n \in 1..MaxN : LoopInit(n, 0)

NextWidths == \E p \in Procs : SetupWidths(p)

SpecWidths == InitWidths /\ [][NextWidths]_vars

\* The 64-bit value P and the block partition derived from it.
PairCount == get_dm_n_lines64(classes, dataset.n_classes)
PartitionLow(id) == Div64(Mul64(U64(id), PairCount), size)

RECURSIVE SumOfSizes64(_)
\* The sum of s_size over the processes 0..p.
SumOfSizes64(p) ==
    IF p < 0 THEN U64(0) ELSE Add64(dm[p].s_size, SumOfSizes64(p - 1))

\* C28: after the setup of a process dm.n_matrix_lines is the value P that
\* get_dm_n_lines returned, dm.s_offset is floor(rank * P / N), dm.s_size is
\* floor((rank + 1) * P / N) - s_offset, the root's global_n_uncovered_lines
\* is P, and once every process is set up the s_size add up to P.
C28_NoTruncation ==
    /\ \A p \in Procs :
          pc[p] = "window" =>
             /\ dm[p].n_matrix_lines = PairCount
             /\ dm[p].s_offset = PartitionLow(p)
             /\ dm[p].s_size = Diff64(PartitionLow(p + 1), PartitionLow(p))
             /\ p = ROOT_RANK => global_n_uncovered_lines = PairCount
    /\ (\A p \in Procs : pc[p] = "window") => SumOfSizes64(size - 1) = PairCount

\* The same for the datasets with fewer than 2^32 pairs and N * P below 2^32.
FitsUint32(x) == x[3] = 0 /\ x[4] = 0
C28_ExactWhenSmall ==
    FitsUint32(Mul64(U64(size), PairCount)) => C28_NoTruncation

C28_Witness ==
    /\ \A p \in Procs : pc[p] = "window"
    /\ size > 1
    /\ PairCount[2] > 0
    /\ FitsUint32(Mul64(U64(size), PairCount))


(***************************************************************************)
(* The setup of the dataset on files of up to MaxRows different lines      *)
(* whose class bits hold any value of the field: with three classes a run  *)
(* of lines with the same attributes can have four lines.                  *)
(***************************************************************************)
InitRuns ==
    /\ \E C \in ClassCounts :
          \E S \in {T \in SUBSET LabelledLines(1, C) : Cardinality(T) \in 2..MaxRows} :
             InitFrom(1, C, DescendingFile(S, LineWords(1, C)))
    /\ LoopInit(1, 0)

SpecRuns == InitRuns /\ [][NextPre]_vars

\* The first n_attributes bits of a line.
AttributeBits(line, n_attributes) == {q \in line : q < n_attributes}

\* The number of lines immediately before line r with the attributes of r.
RunBefore(ds, r) ==
    Cardinality({k \in 1..(r - 1) :
                    \A m \in k..(r - 1) :
                       AttributeBits(ds.data[m], ds.n_attributes)
                          = AttributeBits(ds.data[r], ds.n_attributes)})

\* The longest such run of the dataset.
MaxRun(ds) ==
    CHOOSE m \in {RunBefore(ds, r) : r \in 1..ds.n_observations} :
       \A r \in 1..ds.n_observations : RunBefore(ds, r) <= m

\* The step of add_jnsqs and of the update of n_bits_for_jnsqs after it.
JnsqStep == phase = "indexed" /\ phase' = "jnsq"

\* What the claim says of that step: line r gets the value RunBefore(r),
\* written by set_jnsq_bits; the value is at most C - 1 and below
\* 2^n_bits_for_class; the value returned is the largest of them and J is
\* ceil(log2(max + 1)), at most n_bits_for_class.
JnsqOfRuns ==
    /\ \A r \in 1..dataset.n_observations :
          /\ dataset'.data[r] =
                set_jnsq_bits(dataset.data[r], RunBefore(dataset, r),
                              dataset.n_attributes, dataset.n_words,
                              dataset.n_bits_for_class)
          /\ RunBefore(dataset, r) <= dataset.n_classes - 1
          /\ RunBefore(dataset, r) < Pow2(dataset.n_bits_for_class)
    /\ max_inconsistency' = MaxRun(dataset)
    /\ dataset'.n_bits_for_jnsqs = CeilLog2(max_inconsistency' + 1)
    /\ dataset'.n_bits_for_jnsqs <= dataset.n_bits_for_class

\* C29: in the step of add_jnsqs on the sorted dataset without duplicates,
\* every line gets as JNSQ value the number of lines immediately before it
\* with the same attributes, the value is at most C - 1 and fits in
\* n_bits_for_class bits, and J = ceil(log2(max + 1)) <= n_bits_for_class.
C29_JnsqCountsRun == [][JnsqStep => JnsqOfRuns]_vars

\* The same when every class label of the dataset is a class.
C29_JnsqCountsRunOfClasses ==
    [][(JnsqStep /\ LabelsOutOfRange(dataset) = {}) => JnsqOfRuns]_vars

\* With labels that are no class the values are still counted as the claim
\* says and fit the field; only the bound C - 1 is exceeded.
C29_JnsqFitsField ==
    [][JnsqStep =>
          /\ \A r \in 1..dataset.n_observations :
                /\ dataset'.data[r] =
                      set_jnsq_bits(dataset.data[r], RunBefore(dataset, r),
                                    dataset.n_attributes, dataset.n_words,
                                    dataset.n_bits_for_class)
                /\ RunBefore(dataset, r) < Pow2(dataset.n_bits_for_class)
          /\ max_inconsistency' = MaxRun(dataset)
          /\ dataset'.n_bits_for_jnsqs = CeilLog2(max_inconsistency' + 1)
          /\ dataset'.n_bits_for_jnsqs <= dataset.n_bits_for_class]_vars

C29_Witness ==
    /\ phase = "jnsq"
    /\ max_inconsistency = dataset.n_classes - 1
    /\ dataset.n_classes = 3
    /\ dataset.n_observations > 3


\* The pairs that no attribute selected before selection k discerns.
UncoveredAt(k) == {t \in AllPairs : LineXor(t) \cap SelectedBefore(k) = {}}

\* The number of those pairs whose xor has the bit of attribute a.
UncoveredWith(k, a) == Cardinality({t \in UncoveredAt(k) : a \in LineXor(t)})

=============================================================================
